---- MODULE Spec2Model ----
(***************************************************************************)
(* A model of crashvault's event ingestion and webhook dispatch pipeline:  *)
(* the issue collection (issues.json), the event store (one file per       *)
(* event), the processes that read-modify-write them (the HTTP server's    *)
(* request handler and the CLI commands add, purge and wrap), the webhook  *)
(* dispatcher's fan-out, and the registry kept in the shared config file.  *)
(***************************************************************************)
EXTENDS Integers, Sequences, FiniteSets, TLC

(***************************************************************************)
(* Bounds of the model.                                                    *)
(***************************************************************************)
\* number of CLI processes running next to the server process
NumCli == 1
\* number of operations (requests, CLI commands) started in a run in which
\* the processes interleave
MaxOps == 2
\* number of operations started in a run in which they follow one another
MaxSeqOps == 3
\* longest "events" array of a POST /api/v1/batch body
MaxBatch == 1
\* elements of a batch sent to a server with a webhook registry
BatchLen == 2
\* largest registry a dispatch is checked against
MaxHooks == 4
\* number of CLI processes that work on the config file
NumCfgCli == 2
\* number of config operations (webhook add / remove / toggle, config set)
MaxCfgOps == 2
\* number of events the server dispatches in a run with config operations
MaxDispatches == 2
\* number of add / remove / toggle calls made on one WebhookDispatcher
MaxRegOps == 4
\* number of times a client sends its object in a run that compares the
\* single and the batch path
MaxNormOps == 2
\* largest number of matching subscriptions of a dispatch through the pool
MaxPoolHooks == 6
\* number of processes that write event files next to a load_events call
NumWriters == 2
\* terminals that run `crashvault server stop`
NumStoppers == 2
\* number of `server stop` commands
MaxStopOps == 2
\* number of event writes and load_events calls in a run of the event store
MaxStoreOps == 3
\* number of write() calls json.dump needs for one event document
DocChunks == 2
\* number of files in the partition tree that do not hold a JSON document
MaxCorrupt == 1

(***************************************************************************)
(* Inputs.                                                                 *)
(***************************************************************************)
\* "" is the empty / missing message (falsy in Python)
NoMessage == ""
Messages == {"disk is on fire", "oom"}
\* a message of 93 characters, and its first 80
LongMessage ==
  "connection pool exhausted while flushing the write-ahead log to replica eu-west-1b, giving up"
LongMessageHead ==
  "connection pool exhausted while flushing the write-ahead log to replica eu-west-"

\* hashlib.sha1(message.encode("utf-8")).hexdigest()[:8], tabulated for the
\* messages of the model (the values are the real digests' prefixes)
Fingerprint(m) ==
  CASE m = "disk is on fire" -> "7a8e3dcd"
    [] m = "oom"             -> "174b35fe"
    [] m = LongMessage       -> "57e33943"
    [] OTHER                 -> "da39a3ee"

\* process 0 is the server (HTTPServer handles one request at a time),
\* 1..NumCli are CLI invocations
ServerProc == 0
CliProcs == 1..NumCli
Procs == {ServerProc} \cup CliProcs

VARIABLES
  issuesFile,     \* contents of ISSUES_FILE: the persisted issue collection
  eventFiles,     \* the *.json files under EVENTS_DIR, one record per file
  uuidCount,      \* number of uuid4() values drawn so far
  pc,             \* position of each process in its handler / command
  request,        \* the request or command each process is executing
  local_issues,   \* the handler's local variable `issues`
  local_issue,    \* the handler's local variable `issue`
  created_new,    \* the handler's local variable `created_new`
  local_event,    \* the handler's local variable `event_data` / `ev`
  results,        \* _handle_batch's local variable `results`
  dispatched,     \* event ids that were handed to dispatch_webhooks
  responses,      \* the latest two responses / command outcomes, in send order
  opsLeft,        \* number of operations the environment will still start
  assignedIds     \* history: the ids of the issues created, in save order

ingestVars == <<issuesFile, eventFiles, uuidCount, pc, request, local_issues,
                local_issue, created_new, local_event, results, dispatched,
                responses, opsLeft, assignedIds>>

VARIABLES
  configFile,     \* contents of CONFIG_FILE: the shared config document
  dispatcher,     \* per process: its WebhookDispatcher (`_dispatcher`)
  cpc,            \* position of each CLI process in a config operation
  cfg_local,      \* the local `config` / `cfg` of _save_webhooks, config_set
  hookUuid,       \* number of webhook ids drawn so far
  cfgOpsLeft,     \* number of config operations still to be started
  hpc,            \* position of the server's handler around dispatch_webhooks
  payload_level,  \* WebhookPayload.level of the event being dispatched
  dpc,            \* position inside WebhookDispatcher.dispatch
  providers,      \* dispatch's local list `providers` (the webhook configs)
  futures,        \* state of the future submitted for each provider
  collected,      \* futures the as_completed loop has consumed
  dresults,       \* dispatch's local dict `results`
  sendCalls,      \* history: number of times each provider's send was invoked
  dispatchesLeft  \* number of events the server will still dispatch

hookVars == <<configFile, dispatcher, cpc, cfg_local, hookUuid, cfgOpsLeft,
              hpc, payload_level, dpc, providers, futures, collected,
              dresults, sendCalls, dispatchesLeft>>

VARIABLES
  ret,            \* what the last call of a registry method returned
  client_body     \* the JSON object a client sends, as body and as element

VARIABLES
  tree,           \* the files under EVENTS_DIR, by name, with their bytes
  spc,            \* position of each writer and of the load_events caller
  wpath,          \* the writer's local variable `path`
  globbed,        \* the names EVENTS_DIR.glob("**/*.json") produced
  todo,           \* the names the loop of load_events has not visited yet
  loaded,         \* load_events' local list `events`
  observed        \* history: every content a read_text() of the loop returned

VARIABLES
  links,          \* the names in the vault's root directory and their inodes
  inodes,         \* the bytes of each inode, as a list of chunks
  fds             \* the file each writer has open, and its write position

issueFileVars == <<links, inodes, fds>>

VARIABLES
  pidFile,        \* whether PID_FILE exists (it holds the server's pid)
  server,         \* the server process: serving, in its signal handler, gone
  sigterm,        \* a signal is pending for the server process
  stop_pc,        \* position of each `server stop` command in stop_server
  stop_ret,       \* what stop_server returned to each command
  stop_sent,      \* whether the command's os.kill reached the server
  stopOpsLeft     \* `server stop` commands still to be run

serverVars == <<pidFile, server, sigterm, stop_pc, stop_ret, stop_sent,
                stopOpsLeft>>

storeVars == <<tree, spc, wpath, globbed, todo, loaded, observed,
               issueFileVars>>

auxVars == <<ret, client_body, storeVars, serverVars>>

vars == <<ingestVars, hookVars, auxVars>>

\* the processes that touch the config file: the server and the config CLIs
CfgCli == 1..NumCfgCli
CfgProcs == {ServerProc} \cup CfgCli

\* `_dispatcher is None` / a WebhookDispatcher with its `webhooks` list
\* (`loaded` keeps the list _load_webhooks read in __init__)
NoDispatcher == [built |-> FALSE, webhooks |-> <<>>, loaded |-> <<>>]

\* the empty dict
EmptyDict == [x \in {} |-> TRUE]

\* ensure_dirs(): _write_json_atomic(CONFIG_FILE, {"version": 1})
DefaultConfig == [k \in {"version"} |-> 1]

\* no dispatch in progress
DispatchQuiet ==
  /\ hpc = "idle"
  /\ payload_level = ""
  /\ dpc = "idle"
  /\ providers = <<>>
  /\ futures = <<>>
  /\ collected = {}
  /\ dresults = EmptyDict
  /\ sendCalls = <<>>

\* no config operation in progress
ConfigQuiet ==
  /\ cpc = [c \in CfgProcs |-> "idle"]
  /\ cfg_local = [c \in CfgProcs |-> DefaultConfig]
  /\ hookUuid = 0

\* the processes that work on the files of the event store
Writers == 1..NumWriters
Reader == 0
StoreProcs == {Reader} \cup Writers

\* a file name as the list of its dot-separated parts; no path yet
NoPath == <<>>

\* ISSUES_FILE and the name _write_json_atomic writes to before the rename
ISSUES_FILE == <<"issues", "json">>

\* the chunks of the JSON text of collection `doc`; collection 0 is "[]"
Chunk(doc, idx) == [doc |-> doc, idx |-> idx]
Hole == Chunk(0, 0)
DocumentChunks(doc) == [i \in 1..DocChunks |-> Chunk(doc, i)]

NoFd == [ino |-> 0, pos |-> 0]

\* ensure_dirs() has written "[]" to ISSUES_FILE and nobody has it open
IssuesFileQuiet ==
  /\ links = [n \in {ISSUES_FILE} |-> 1]
  /\ inodes = <<DocumentChunks(0)>>
  /\ fds = [s \in Writers |-> NoFd]

Stoppers == 1..NumStoppers

\* run_server has written its pid to PID_FILE and serves
ServerStarted ==
  /\ pidFile = TRUE
  /\ server = "serving"
  /\ sigterm = FALSE
  /\ stop_pc = [s \in Stoppers |-> "idle"]
  /\ stop_ret = [s \in Stoppers |-> "none"]
  /\ stop_sent = [s \in Stoppers |-> FALSE]

\* nobody stops the server
ServerOff == ServerStarted /\ stopOpsLeft = 0

\* nobody writes or loads event files, and the partition tree is empty
StoreQuiet ==
  /\ IssuesFileQuiet
  /\ ServerStarted
  /\ spc = [s \in StoreProcs |-> "idle"]
  /\ wpath = [s \in Writers |-> NoPath]
  /\ globbed = {}
  /\ todo = {}
  /\ loaded = {}
  /\ observed = {}

StoreOff == tree = {} /\ StoreQuiet /\ ServerOff

\* no library call has returned anything
AuxOff ==
  /\ ret = "none"
  /\ client_body = <<>>
  /\ StoreOff

\* a fresh vault in which nobody configures or dispatches webhooks
HooksOff ==
  /\ AuxOff
  /\ configFile = DefaultConfig
  /\ dispatcher = [c \in CfgProcs |-> NoDispatcher]
  /\ ConfigQuiet
  /\ cfgOpsLeft = 0
  /\ DispatchQuiet
  /\ dispatchesLeft = 0

(***************************************************************************)
(* Issues and events.                                                      *)
(***************************************************************************)
\* Python's None for "no issue matched"
NoIssue == [id |-> 0, fingerprint |-> "", title |-> "", status |-> "none"]
NoEvent == [event_id |-> 0, issue_id |-> 0, message |-> ""]
NoRequest == [kind |-> "none", message |-> "", len |-> 0, idx |-> 0,
              issue_id |-> 0, data |-> <<>>, valid |-> 0]

RECURSIVE FirstMatch(_, _, _)
FirstMatch(issues, fp, i) ==
  IF i > Len(issues) THEN NoIssue
  ELSE IF issues[i].fingerprint = fp THEN issues[i]
  ELSE FirstMatch(issues, fp, i + 1)

\* a scan that starts one element too late
FindIssue_skipFirst(issues, fp) == FirstMatch(issues, fp, 2)

\* next((i for i in issues if i["fingerprint"] == fp), None)
FindIssue(issues, fp) == FirstMatch(issues, fp, 1)

\* message[:80], tabulated for the messages of the model
Title(m) == IF m = LongMessage THEN LongMessageHead ELSE m

\* the issue dict built when no issue matched
NewIssue(issues, m) ==
  [id |-> Len(issues) + 1, fingerprint |-> Fingerprint(m),
   title |-> Title(m), status |-> "open"]

\* an event that names the slot after the issue's
EventRecord_nextId(eid, issue, m) ==
  [event_id |-> eid, issue_id |-> issue.id + 1, message |-> m]

\* the event dict written to the event file
EventRecord(eid, issue, m) ==
  [event_id |-> eid, issue_id |-> issue.id, message |-> m]

(***************************************************************************)
(* JSON values of a request body and the fields _handle_event and          *)
(* _handle_batch derive from them.                                         *)
(***************************************************************************)
\* a JSON value: its type and its text; "absent" is a key the body lacks
Absent == [t |-> "absent", v |-> ""]
Str(text) == [t |-> "str", v |-> text]
Num(text) == [t |-> "num", v |-> text]
List(text) == [t |-> "list", v |-> text]
Obj(text) == [t |-> "obj", v |-> text]

\* a message that is a JSON number: truthy, and not a str
NumberMessage == "<42>"
is_str(m) == m # NumberMessage

\* a request body (or batch element) that carries only a message
Body(m) ==
  [message |-> m, level |-> Absent, tags |-> Absent, context |-> Absent,
   stacktrace |-> Absent, stack |-> Absent, source |-> Absent]

\* data.get(key, default) for a JSON value
Get(value, default) == IF value.t = "absent" THEN default ELSE value

ValidLevels == {"debug", "info", "warning", "error", "critical"}

\* str.lower() on the level texts of the model
LowerText(text) ==
  CASE text = "CRITICAL" -> "critical"
    [] text = "Error"    -> "error"
    [] OTHER             -> text

\* data.get("level", "error").lower() raises AttributeError
level_raises(data) == Get(data.level, Str("error")).t # "str"

\* level = data.get("level", "error").lower(); "error" if not a valid level
normalize_level(data) ==
  LET level == LowerText(Get(data.level, Str("error")).v)
  IN IF level \in ValidLevels THEN Str(level) ELSE Str("error")

\* tags = data.get("tags", []); a str is wrapped into a list
normalize_tags(data) ==
  LET tags == Get(data.tags, List(""))
  IN IF tags.t = "str" THEN List(tags.v) ELSE tags

\* context = data.get("context", {}); {} unless a dict; then
\* context["source"] = data.get("source", ...) if truthy (line and column
\* are folded in the same way)
normalize_context(data) ==
  LET context == Get(data.context, Obj(""))
      base == IF context.t = "obj" THEN context ELSE Obj("")
      source == Get(data.source, Str("")).v
  IN [t |-> base.t, v |-> base.v, source |-> source]

\* the optional fields of the event dict _handle_event builds
event_fields(data) ==
  [stacktrace |-> Get(data.stacktrace, Get(data.stack, Str(""))),
   level |-> normalize_level(data),
   tags |-> normalize_tags(data),
   context |-> normalize_context(data)]

\* the optional fields of the dict `ev` _handle_batch builds
batch_fields(data) ==
  [stacktrace |-> Get(data.stacktrace, Str("")),
   level |-> Get(data.level, Str("error")),
   tags |-> Get(data.tags, List("")),
   context |-> LET context == Get(data.context, Obj(""))
               IN [t |-> context.t, v |-> context.v, source |-> ""]]

\* the optional fields of the event `add` saves: --level is a click.Choice
\* with default "error", tags and context are built as list and dict
add_fields ==
  [stacktrace |-> Str(""), level |-> Str("error"), tags |-> List(""),
   context |-> [t |-> "obj", v |-> "", source |-> ""]]

\* the event dict with its optional fields, as the handler of `kind` builds it
event_data(eid, issue, kind, data) ==
  LET core == EventRecord(eid, issue, data.message)
      f == IF kind = "event" THEN event_fields(data)
           ELSE IF kind = "batch" THEN batch_fields(data)
           ELSE add_fields
  IN [event_id |-> core.event_id, issue_id |-> core.issue_id,
      message |-> core.message, stacktrace |-> f.stacktrace,
      level |-> f.level, tags |-> f.tags, context |-> f.context]

\* the status logged for a handler that raised: the connection is closed
\* without a response
NO_RESPONSE == 0

\* [i for i in issues if i["id"] != issue_id]
RECURSIVE WithoutId(_, _)
WithoutId(issues, id) ==
  IF issues = <<>> THEN <<>>
  ELSE IF Head(issues).id = id THEN WithoutId(Tail(issues), id)
  ELSE <<Head(issues)>> \o WithoutId(Tail(issues), id)

Response(op, status, m, eid, iid, created, res) ==
  [op |-> op, status |-> status, message |-> m, event_id |-> eid,
   issue_id |-> iid, issue_created |-> created, results |-> res]

\* the latest two responses after r is sent
Sent(r) ==
  IF Len(responses) < 2 THEN Append(responses, r)
  ELSE Append(Tail(responses), r)

\* the message the handler is working on (a batch reads its elements one
\* by one; `message` is the element at hand)
CurMessage(p) == request[p].message

(***************************************************************************)
(* Initial state: ensure_dirs() has created an empty collection.           *)
(***************************************************************************)
IngestFiles ==
  /\ issuesFile = <<>>
  /\ eventFiles = {}
  /\ uuidCount = 0
  /\ pc = [p \in Procs |-> "idle"]
  /\ request = [p \in Procs |-> NoRequest]
  /\ local_issues = [p \in Procs |-> <<>>]
  /\ local_issue = [p \in Procs |-> NoIssue]
  /\ created_new = [p \in Procs |-> FALSE]
  /\ local_event = [p \in Procs |-> NoEvent]
  /\ results = [p \in Procs |-> <<>>]
  /\ dispatched = {}
  /\ responses = <<>>
  /\ assignedIds = <<>>

Init == IngestFiles /\ opsLeft = MaxOps /\ HooksOff

\* the handler's locals are dead once the handler returns
Finish(p) ==
  /\ pc' = [pc EXCEPT ![p] = "idle"]
  /\ request' = [request EXCEPT ![p] = NoRequest]
  /\ local_issues' = [local_issues EXCEPT ![p] = <<>>]
  /\ local_issue' = [local_issue EXCEPT ![p] = NoIssue]
  /\ created_new' = [created_new EXCEPT ![p] = FALSE]
  /\ local_event' = [local_event EXCEPT ![p] = NoEvent]
  /\ results' = [results EXCEPT ![p] = <<>>]

(***************************************************************************)
(* POST /api/v1/events (server) and `add` (CLI): the same steps.           *)
(***************************************************************************)
\* issues = load_issues(); issue = next(..., None); created_new = False.
\* The loaded list is read again only to build and save a new issue, so the
\* model keeps it only on that path.
resolve_issue(p, m) ==
  LET found == FindIssue(issuesFile, Fingerprint(m))
  IN /\ local_issue' = [local_issue EXCEPT ![p] = found]
     /\ created_new' = [created_new EXCEPT ![p] = FALSE]
     /\ IF found = NoIssue
        THEN /\ local_issues' = [local_issues EXCEPT ![p] = issuesFile]
             /\ pc' = [pc EXCEPT ![p] = "create"]
        ELSE /\ local_issues' = [local_issues EXCEPT ![p] = <<>>]
             /\ pc' = [pc EXCEPT ![p] = "event"]

\* _handle_event up to the lookup: an empty or missing message is answered
\* 400; a level that is not a str makes .lower() raise and a message that
\* is not a str makes .encode() raise, both before anything is written;
\* otherwise the collection is loaded and searched
handle_event(p, data) ==
  /\ UNCHANGED <<hookVars, auxVars>>
  /\ p = ServerProc
  /\ pc[p] = "idle"
  /\ opsLeft > 0
  /\ opsLeft' = opsLeft - 1
  /\ LET m == data.message
     IN IF m = NoMessage
        THEN /\ responses' = Sent(Response("event", 400, m, 0, 0, FALSE, <<>>))
             /\ UNCHANGED <<pc, request, local_issues, local_issue, created_new>>
        ELSE IF level_raises(data) \/ ~is_str(m)
        THEN /\ responses' = Sent(Response("event", NO_RESPONSE, m, 0, 0,
                                           FALSE, <<>>))
             /\ UNCHANGED <<pc, request, local_issues, local_issue, created_new>>
        ELSE /\ request' = [request EXCEPT ![p] =
                   [NoRequest EXCEPT !.kind = "event", !.message = m,
                                     !.data = data]]
             /\ resolve_issue(p, m)
             /\ UNCHANGED responses
  /\ UNCHANGED <<issuesFile, eventFiles, uuidCount, local_event, results,
                 dispatched, assignedIds>>

\* an `add` that waits while another process is between its load_issues and
\* its save_issues
add_locked(p, m) ==
  /\ UNCHANGED <<hookVars, auxVars>>
  /\ p \in CliProcs
  /\ pc[p] = "idle"
  /\ \A q \in Procs : pc[q] # "create"
  /\ opsLeft > 0
  /\ opsLeft' = opsLeft - 1
  /\ request' = [request EXCEPT ![p] =
                   [NoRequest EXCEPT !.kind = "add", !.message = m,
                                     !.data = Body(m)]]
  /\ resolve_issue(p, m)
  /\ UNCHANGED <<issuesFile, eventFiles, uuidCount, local_event, results,
                 dispatched, responses, assignedIds>>

\* `crashvault add MESSAGE` up to the lookup
add(p, m) ==
  /\ UNCHANGED <<hookVars, auxVars>>
  /\ p \in CliProcs
  /\ pc[p] = "idle"
  /\ opsLeft > 0
  /\ opsLeft' = opsLeft - 1
  /\ request' = [request EXCEPT ![p] =
                   [NoRequest EXCEPT !.kind = "add", !.message = m,
                                     !.data = Body(m)]]
  /\ resolve_issue(p, m)
  /\ UNCHANGED <<issuesFile, eventFiles, uuidCount, local_event, results,
                 dispatched, responses, assignedIds>>

\* if not issue: build it, issues.append(issue), save_issues(issues)
create_issue(p) ==
  /\ UNCHANGED <<hookVars, auxVars>>
  /\ pc[p] = "create"
  /\ LET issue == NewIssue(local_issues[p], CurMessage(p))
         issues == Append(local_issues[p], issue)
     IN /\ local_issue' = [local_issue EXCEPT ![p] = issue]
        /\ local_issues' = [local_issues EXCEPT ![p] = <<>>]
        /\ issuesFile' = issues
        /\ assignedIds' = Append(assignedIds, issue.id)
  /\ created_new' = [created_new EXCEPT ![p] = TRUE]
  /\ pc' = [pc EXCEPT ![p] = "event"]
  /\ UNCHANGED <<eventFiles, uuidCount, request, local_event, results,
                 dispatched, responses, opsLeft>>

\* the event is built and handed on while its file is not written
persist_event_unwritten(p) ==
  /\ UNCHANGED <<hookVars, auxVars>>
  /\ pc[p] = "event"
  /\ uuidCount' = uuidCount + 1
  /\ local_event' = [local_event EXCEPT ![p] =
                       event_data(uuidCount + 1, local_issue[p],
                                  request[p].kind, request[p].data)]
  /\ pc' = [pc EXCEPT ![p] = IF request[p].kind = "add" THEN "respond"
                             ELSE "dispatch"]
  /\ UNCHANGED <<issuesFile, eventFiles, request, local_issues, local_issue,
                 created_new, results, dispatched, responses, opsLeft,
                 assignedIds>>

\* event_id = str(uuid.uuid4()); the event file is written and renamed
persist_event(p) ==
  /\ UNCHANGED <<hookVars, auxVars>>
  /\ pc[p] = "event"
  /\ uuidCount' = uuidCount + 1
  /\ LET ev == event_data(uuidCount + 1, local_issue[p], request[p].kind,
                           request[p].data)
     IN /\ local_event' = [local_event EXCEPT ![p] = ev]
        /\ eventFiles' = eventFiles \cup {ev}
  /\ pc' = [pc EXCEPT ![p] = IF request[p].kind = "add" THEN "respond"
                             ELSE "dispatch"]
  /\ UNCHANGED <<issuesFile, request, local_issues, local_issue, created_new,
                 results, dispatched, responses, opsLeft, assignedIds>>

\* _PROVIDERS once the webhooks package is imported: slack.py, discord.py
\* and http.py each call register_provider
RegisteredTypes == {"slack", "discord", "http"}

\* WebhookConfig(id, type, ..., events, enabled)
WebhookConfig(id, type, events, enabled) ==
  [id |-> id, type |-> type, events |-> events, enabled |-> enabled]

\* a serialisation that leaves `enabled` at its default
to_dict_enabledDefault(w) ==
  [id |-> w.id, type |-> w.type, events |-> w.events, enabled |-> TRUE]

\* WebhookConfig.to_dict / from_dict copy the fields one by one
to_dict(w) ==
  [id |-> w.id, type |-> w.type, events |-> w.events, enabled |-> w.enabled]
from_dict(d) == WebhookConfig(d.id, d.type, d.events, d.enabled)

\* config.get(key, default)
ConfigGet(cfg, key, default) == IF key \in DOMAIN cfg THEN cfg[key] ELSE default

\* _load_webhooks: [WebhookConfig.from_dict(w) for w in config.get("webhooks", [])]
load_webhooks(cfg) ==
  LET data == ConfigGet(cfg, "webhooks", <<>>)
  IN [i \in DOMAIN data |-> from_dict(data[i])]

\* get_provider(config) is not None
has_provider(w) == w.type \in RegisteredTypes

\* should_send raises AttributeError: the subscription is enabled and has an
\* events filter, and payload.level has no .lower()
should_send_raises(w, level) ==
  w.enabled /\ w.events # <<>> /\ level.t # "str"

\* dispatch: the loop over self.webhooks reaches a subscription with a
\* provider whose should_send raises
dispatch_raises(webhooks, level) ==
  \E i \in DOMAIN webhooks :
     has_provider(webhooks[i]) /\ should_send_raises(webhooks[i], level)

\* dispatch_webhooks(event_data), then the next batch element or the response;
\* an exception of the filter check leaves the handler without a response
\* (the registry is the one get_dispatcher() holds or builds from the config)
dispatch_event(p) ==
  /\ UNCHANGED <<hookVars, auxVars>>
  /\ pc[p] = "dispatch"
  /\ LET webhooks == IF dispatcher[ServerProc].built
                     THEN dispatcher[ServerProc].webhooks
                     ELSE load_webhooks(configFile)
     IN IF dispatch_raises(webhooks, local_event[p].level)
        THEN /\ responses' = Sent(Response(request[p].kind, NO_RESPONSE,
                                           request[p].message, 0, 0, FALSE,
                                           results[p]))
             /\ Finish(p)
             /\ UNCHANGED dispatched
        ELSE /\ dispatched' = dispatched \cup {local_event[p].event_id}
             /\ IF request[p].kind = "batch"
                THEN /\ results' = [results EXCEPT ![p] =
                           Append(@, [event_id |-> local_event[p].event_id,
                                      issue_id |-> local_issue[p].id])]
                     /\ request' = [request EXCEPT ![p].idx = @ + 1]
                     /\ pc' = [pc EXCEPT ![p] = "batch"]
                ELSE /\ pc' = [pc EXCEPT ![p] = "respond"]
                     /\ UNCHANGED <<results, request>>
             /\ UNCHANGED <<local_issues, local_issue, created_new,
                            local_event, responses>>
  /\ UNCHANGED <<issuesFile, eventFiles, uuidCount, opsLeft, assignedIds>>

\* send_json_response(201, ...) / the CLI's "Event ... logged to issue"
respond_event(p) ==
  /\ UNCHANGED <<hookVars, auxVars>>
  /\ pc[p] = "respond"
  /\ responses' = Sent(
        Response(request[p].kind, 201, request[p].message,
                 local_event[p].event_id, local_issue[p].id, created_new[p],
                 <<>>))
  /\ Finish(p)
  /\ UNCHANGED <<issuesFile, eventFiles, uuidCount, dispatched, opsLeft,
                 assignedIds>>

(***************************************************************************)
(* do_POST: the requests it answers before a handler is called.            *)
(***************************************************************************)
\* `if content_length > 1024 * 1024`
MAX_BODY == 1024 * 1024

EventPaths == {"/api/v1/events", "/api/v1/errors", "/api/events"}
BatchPath == "/api/v1/batch"

\* request bodies: a JSON object, and text json.loads rejects
Bodies == {"{}", "{"}
json_loads_fails(body) == body = "{"

\* the status do_POST answers with itself; 0 when it calls a handler
post_status(content_length, body, path) ==
  IF content_length > MAX_BODY THEN 413
  ELSE IF json_loads_fails(body) THEN 400
  ELSE IF path \in EventPaths \cup {BatchPath} THEN 0
  ELSE 404

\* a handler that also files every request it turns down as an event
do_POST_filesRejected(p, content_length, body, path) ==
  /\ UNCHANGED <<hookVars, auxVars>>
  /\ p = ServerProc
  /\ pc[p] = "idle"
  /\ opsLeft > 0
  /\ opsLeft' = opsLeft - 1
  /\ post_status(content_length, body, path) # 0
  /\ responses' = Sent(Response("post", post_status(content_length, body, path),
                                "", 0, 0, FALSE, <<>>))
  /\ uuidCount' = uuidCount + 1
  /\ eventFiles' = eventFiles \cup
        {[event_id |-> uuidCount + 1, issue_id |-> 0, message |-> path]}
  /\ UNCHANGED <<issuesFile, pc, request, local_issues, local_issue,
                 created_new, local_event, results, dispatched, assignedIds>>

\* do_POST for a request it answers with 413, 400 (invalid JSON) or 404
do_POST(p, content_length, body, path) ==
  /\ UNCHANGED <<hookVars, auxVars>>
  /\ p = ServerProc
  /\ pc[p] = "idle"
  /\ opsLeft > 0
  /\ opsLeft' = opsLeft - 1
  /\ post_status(content_length, body, path) # 0
  /\ responses' = Sent(Response("post", post_status(content_length, body, path),
                                "", 0, 0, FALSE, <<>>))
  /\ UNCHANGED <<issuesFile, eventFiles, uuidCount, pc, request, local_issues,
                 local_issue, created_new, local_event, results, dispatched,
                 assignedIds>>

(***************************************************************************)
(* POST /api/v1/batch.                                                     *)
(***************************************************************************)
\* the largest accepted batch: `if len(events) > 100`
MAX_BATCH_EVENTS == 100

\* the value of data.get("events", []): something that is not a list, or a
\* list of n elements
NotAList == [is_list |-> FALSE, len |-> 0]
ListOf(n) == [is_list |-> TRUE, len |-> n]

\* a size check that also turns down a full batch
too_many_inclusive(events) == events.len >= MAX_BATCH_EVENTS

\* len(events) > 100
too_many(events) == events.len > MAX_BATCH_EVENTS

\* _handle_batch up to the loop: 400 for a value that is not a list and for
\* a list of more than 100 elements
handle_batch_begin(p, events) ==
  /\ UNCHANGED <<hookVars, auxVars>>
  /\ p = ServerProc
  /\ pc[p] = "idle"
  /\ opsLeft > 0
  /\ opsLeft' = opsLeft - 1
  /\ IF ~events.is_list \/ too_many(events)
     THEN /\ responses' = Sent(Response("batch", 400, "", 0, 0, FALSE, <<>>))
          /\ UNCHANGED <<pc, request>>
     ELSE /\ pc' = [pc EXCEPT ![p] = "batch"]
          /\ request' = [request EXCEPT ![p] =
                [NoRequest EXCEPT !.kind = "batch", !.len = events.len,
                                  !.idx = 1]]
          /\ UNCHANGED responses
  /\ UNCHANGED <<issuesFile, eventFiles, uuidCount, local_issues, local_issue,
                 created_new, local_event, results, dispatched, assignedIds>>

\* the head of `for event_data in events` with the next element: skip an
\* element without message; a message that is not a str makes .encode()
\* raise, which ends the handler without a response; for a str message load
\* and search the collection
handle_batch_next(p, data) ==
  /\ UNCHANGED <<hookVars, auxVars>>
  /\ pc[p] = "batch"
  /\ request[p].idx <= request[p].len
  /\ LET m == data.message
     IN IF m = NoMessage
        THEN /\ request' = [request EXCEPT ![p].idx = @ + 1]
             /\ UNCHANGED <<pc, local_issues, local_issue, created_new,
                            local_event, results, responses>>
        ELSE IF ~is_str(m)
        THEN /\ responses' = Sent(Response("batch", NO_RESPONSE, m, 0, 0,
                                           FALSE, results[p]))
             /\ Finish(p)
        ELSE /\ request' = [request EXCEPT ![p].message = m, ![p].data = data,
                                           ![p].valid = @ + 1]
             /\ resolve_issue(p, m)
             /\ UNCHANGED <<local_event, results, responses>>
  /\ UNCHANGED <<issuesFile, eventFiles, uuidCount, dispatched, opsLeft,
                 assignedIds>>

\* the array is exhausted: send_json_response(201, {processed, results})
respond_batch(p) ==
  /\ UNCHANGED <<hookVars, auxVars>>
  /\ pc[p] = "batch"
  /\ request[p].idx > request[p].len
  /\ responses' = Sent(Response("batch", 201, "", 0, 0, FALSE, results[p]))
  /\ Finish(p)
  /\ UNCHANGED <<issuesFile, eventFiles, uuidCount, dispatched, opsLeft,
                 assignedIds>>

(***************************************************************************)
(* `crashvault purge ISSUE_ID` (confirmed).                                *)
(***************************************************************************)
\* issues = load_issues(); filter; "Issue not found" when nothing was removed
purge_load(p, id) ==
  /\ UNCHANGED <<hookVars, auxVars>>
  /\ p \in CliProcs
  /\ pc[p] = "idle"
  /\ opsLeft > 0
  /\ opsLeft' = opsLeft - 1
  /\ IF Len(WithoutId(issuesFile, id)) = Len(issuesFile)
     THEN /\ responses' = Sent(
                 Response("purge", 404, "", 0, id, FALSE, <<>>))
          /\ UNCHANGED <<pc, request, local_issues>>
     ELSE /\ pc' = [pc EXCEPT ![p] = "purge_save"]
          /\ request' = [request EXCEPT ![p] =
                           [NoRequest EXCEPT !.kind = "purge", !.issue_id = id]]
          /\ local_issues' = [local_issues EXCEPT ![p] =
                                WithoutId(issuesFile, id)]
          /\ UNCHANGED responses
  /\ UNCHANGED <<issuesFile, eventFiles, uuidCount, local_issue, created_new,
                 local_event, results, dispatched, assignedIds>>

\* save_issues(issues)
purge_save(p) ==
  /\ UNCHANGED <<hookVars, auxVars>>
  /\ pc[p] = "purge_save"
  /\ issuesFile' = local_issues[p]
  /\ pc' = [pc EXCEPT ![p] = "purge_events"]
  /\ UNCHANGED <<eventFiles, uuidCount, request, local_issues, local_issue,
                 created_new, local_event, results, dispatched, responses,
                 opsLeft, assignedIds>>

\* unlink every event file whose issue_id is the purged id
purge_events(p) ==
  /\ UNCHANGED <<hookVars, auxVars>>
  /\ pc[p] = "purge_events"
  /\ eventFiles' = {e \in eventFiles : e.issue_id # request[p].issue_id}
  /\ responses' = Sent(
        Response("purge", 200, "", 0, request[p].issue_id, FALSE, <<>>))
  /\ Finish(p)
  /\ UNCHANGED <<issuesFile, uuidCount, dispatched, opsLeft, assignedIds>>

(***************************************************************************)
(* `crashvault wrap CMD` when the command fails: an event with issue_id 0. *)
(***************************************************************************)
WrapMessage == "Command failed: false (exit 1)"

wrap(p) ==
  /\ UNCHANGED <<hookVars, auxVars>>
  /\ p \in CliProcs
  /\ pc[p] = "idle"
  /\ opsLeft > 0
  /\ opsLeft' = opsLeft - 1
  /\ uuidCount' = uuidCount + 1
  /\ eventFiles' = eventFiles \cup
        {[event_id |-> uuidCount + 1, issue_id |-> 0, message |-> WrapMessage,
          stacktrace |-> Str(""), level |-> Str("error"),
          tags |-> List("wrap"),
          context |-> [t |-> "obj", v |-> "returncode=1", source |-> ""]]}
  /\ responses' = Sent(
        Response("wrap", 1, WrapMessage, uuidCount + 1, 0, FALSE, <<>>))
  /\ UNCHANGED <<issuesFile, pc, request, local_issues, local_issue,
                 created_new, local_event, results, dispatched, assignedIds>>

(***************************************************************************)
(* Next-state relations.                                                   *)
(***************************************************************************)

\* the ids a user names on `purge`: those handed out so far and one more
PurgeIds == 1..(Len(assignedIds) + 1)

\* the declared lengths, bodies and paths of the requests of the model
ContentLengths == {2, MAX_BODY, MAX_BODY + 1}
Paths == {"/api/v1/events", BatchPath, "/api/v1/nope"}

\* the "events" values of the batch requests of the model
BatchBodies ==
  {NotAList} \cup {ListOf(n) : n \in (0..MaxBatch) \cup {MAX_BATCH_EVENTS + 1}}

Step(p) ==
  \/ \E m \in Messages \cup {NoMessage} : handle_event(p, Body(m))
  \/ \E m \in Messages : add(p, m)
  \/ create_issue(p)
  \/ persist_event(p)
  \/ dispatch_event(p)
  \/ respond_event(p)
  \/ \E content_length \in ContentLengths, body \in Bodies, path \in Paths :
        do_POST(p, content_length, body, path)
  \/ \E events \in BatchBodies : handle_batch_begin(p, events)
  \/ \E m \in Messages \cup {NoMessage} : handle_batch_next(p, Body(m))
  \/ respond_batch(p)
  \/ \E id \in PurgeIds : purge_load(p, id)
  \/ purge_save(p)
  \/ purge_events(p)
  \/ wrap(p)

\* the server process and the CLI processes interleave at every file access
Next == \E p \in Procs : Step(p)

Spec == Init /\ [][Next]_vars

\* one operation at a time: an operation starts only when no other is in
\* progress, and then runs to completion
Alone(p) == \A q \in Procs \ {p} : pc[q] = "idle"

seq_handle_event(p, data) == Alone(p) /\ handle_event(p, data)
seq_add(p, m) == Alone(p) /\ add(p, m)
seq_handle_batch(p, events) == Alone(p) /\ handle_batch_begin(p, events)
seq_do_POST(p, content_length, body, path) ==
  Alone(p) /\ do_POST(p, content_length, body, path)
seq_purge(p, id) == Alone(p) /\ purge_load(p, id)
seq_wrap(p) == Alone(p) /\ wrap(p)

NextSeq ==
  \E p \in Procs :
    \/ \E m \in Messages \cup {NoMessage} : seq_handle_event(p, Body(m))
    \/ \E m \in Messages : seq_add(p, m)
    \/ create_issue(p)
    \/ persist_event(p)
    \/ dispatch_event(p)
    \/ respond_event(p)
    \/ \E content_length \in ContentLengths, body \in Bodies, path \in Paths :
          seq_do_POST(p, content_length, body, path)
    \/ \E events \in BatchBodies : seq_handle_batch(p, events)
    \/ \E m \in Messages \cup {NoMessage} : handle_batch_next(p, Body(m))
    \/ respond_batch(p)
    \/ \E id \in PurgeIds : seq_purge(p, id)
    \/ purge_save(p)
    \/ purge_events(p)
    \/ seq_wrap(p)

InitSeq == IngestFiles /\ opsLeft = MaxSeqOps /\ HooksOff

SpecSeq == InitSeq /\ [][NextSeq]_vars

(***************************************************************************)
(* Batches around the size limit, one request at a time on the server.     *)
(***************************************************************************)
\* number of batch requests in a run
MaxBatchOps == 2

\* batches of 99, 100 and 101 elements
FullBatchBodies ==
  {ListOf(n) : n \in (MAX_BATCH_EVENTS - 1)..(MAX_BATCH_EVENTS + 1)}

\* the elements of the batch at hand: any for a short batch; a long batch is
\* copies of one valid element, its first element possibly without message
BatchElements(p) ==
  IF request[p].len <= MaxBatch THEN Messages \cup {NoMessage, NumberMessage}
  ELSE IF request[p].idx = 1 THEN {"oom", NoMessage}
  ELSE {"oom"}

NextBatch ==
  \/ \E events \in FullBatchBodies \cup {ListOf(MaxBatch)} :
        handle_batch_begin(ServerProc, events)
  \/ \E m \in BatchElements(ServerProc) :
        handle_batch_next(ServerProc, Body(m))
  \/ create_issue(ServerProc)
  \/ persist_event(ServerProc)
  \/ dispatch_event(ServerProc)
  \/ respond_batch(ServerProc)

InitBatch == IngestFiles /\ opsLeft = MaxBatchOps /\ HooksOff

SpecBatch == InitBatch /\ [][NextBatch]_vars

(***************************************************************************)
(* One JSON object sent both as the body of POST /api/v1/events and as the *)
(* only element of a POST /api/v1/batch.                                   *)
(***************************************************************************)
\* the objects a client sends: a message and every combination of the
\* optional fields' shapes
NormBodies ==
  [message : {"oom"},
   level : {Absent, Str("CRITICAL"), Str("fatal"), Num("5")},
   tags : {Absent, Str("db"), List("db")},
   context : {Absent, Str("ctx"), Obj("env=prod")},
   stacktrace : {Absent, Str("tb")},
   stack : {Absent, Str("alt")},
   source : {Absent, Str("app.js")}]

NextNorm ==
  \/ handle_event(ServerProc, client_body)
  \/ handle_batch_begin(ServerProc, ListOf(1))
  \/ handle_batch_next(ServerProc, client_body)
  \/ create_issue(ServerProc)
  \/ persist_event(ServerProc)
  \/ dispatch_event(ServerProc)
  \/ respond_event(ServerProc)
  \/ respond_batch(ServerProc)

\* a fresh vault without webhooks; the client sends its object twice
InitNorm ==
  /\ IngestFiles
  /\ opsLeft = MaxNormOps
  /\ configFile = DefaultConfig
  /\ dispatcher = [c \in CfgProcs |-> NoDispatcher]
  /\ ConfigQuiet
  /\ cfgOpsLeft = 0
  /\ DispatchQuiet
  /\ dispatchesLeft = 0
  /\ ret = "none"
  /\ client_body \in NormBodies
  /\ StoreOff

SpecNorm == InitNorm /\ [][NextNorm]_vars

(***************************************************************************)
(* The webhook registry and WebhookDispatcher.dispatch.                    *)
(***************************************************************************)
\* ThreadPoolExecutor(max_workers=5)
max_workers == 5

\* levels a payload carries
PayloadLevels == {"error", "CRITICAL"}

\* a comparison that keeps the letter case
Lower_keepCase(str) == str

\* str.lower() on the level strings of the model
Lower(str) ==
  CASE str = "CRITICAL" -> "critical"
    [] str = "Critical" -> "critical"
    [] str = "ERROR"    -> "error"
    [] OTHER            -> str

\* the subscriptions a registry is made of: type, events filter (<<>> is
\* None or []), enabled
HookKinds ==
  { [type |-> "http",  events |-> <<>>,           enabled |-> TRUE],
    [type |-> "slack", events |-> <<"Critical">>, enabled |-> TRUE],
    [type |-> "http",  events |-> <<>>,           enabled |-> FALSE],
    [type |-> "teams", events |-> <<>>,           enabled |-> TRUE] }

\* the registries a dispatch is checked against, ids by position
Registries ==
  { [i \in DOMAIN r |-> WebhookConfig(i, r[i].type, r[i].events, r[i].enabled)] :
      r \in UNION {[1..n -> HookKinds] : n \in 0..MaxHooks} }

\* config[key] = value
ConfigSet(cfg, key, value) ==
  [k \in DOMAIN cfg \cup {key} |-> IF k = key THEN value ELSE cfg[k]]

\* _save_webhooks: config["webhooks"] = [w.to_dict() for w in self.webhooks]
with_webhooks(cfg, webhooks) ==
  ConfigSet(cfg, "webhooks", [i \in DOMAIN webhooks |-> to_dict(webhooks[i])])

\* a filter check that forgets the enabled flag
should_send_anyState(w, level) ==
  \/ w.events = <<>>
  \/ Lower(level) \in {Lower(w.events[i]) : i \in DOMAIN w.events}

\* WebhookProvider.should_send
should_send(w, level) ==
  IF ~w.enabled THEN FALSE
  ELSE IF w.events = <<>> THEN TRUE
  ELSE Lower(level) \in {Lower(w.events[i]) : i \in DOMAIN w.events}

\* the `providers` list dispatch builds from self.webhooks
RECURSIVE select_providers(_, _)
select_providers(webhooks, level) ==
  IF webhooks = <<>> THEN <<>>
  ELSE (IF has_provider(Head(webhooks)) /\ should_send(Head(webhooks), level)
        THEN <<Head(webhooks)>> ELSE <<>>)
       \o select_providers(Tail(webhooks), level)

Done == {"true", "false", "raised"}

\* a loop body without the except clause
future_result_uncaught(outcome) ==
  [raises |-> outcome = "raised", success |-> outcome = "true"]

\* try: success = future.result() / except Exception: results[id] = False
future_result(outcome) == [raises |-> FALSE, success |-> outcome = "true"]

\* a return from inside the loop of an executor that is not waited for
dispatch_returns_early(coll, futs) == coll # {}

\* the as_completed loop has consumed every future and the `with` block's
\* exit (shutdown(wait=True)) has joined the workers
dispatch_may_return(coll, futs) ==
  /\ coll = DOMAIN futs
  /\ \A k \in DOMAIN futs : futs[k] \in Done

\* the handler has persisted an event of some level and is about to call
\* dispatch_webhooks
event_persisted(level) ==
  /\ hpc \in {"idle", "responded"}
  /\ dispatchesLeft > 0
  /\ dispatchesLeft' = dispatchesLeft - 1
  /\ hpc' = "persisted"
  /\ payload_level' = level
  /\ dpc' = "idle"
  /\ providers' = <<>>
  /\ futures' = <<>>
  /\ collected' = {}
  /\ dresults' = EmptyDict
  /\ sendCalls' = <<>>
  /\ UNCHANGED <<configFile, dispatcher, cpc, cfg_local, hookUuid, cfgOpsLeft>>
  /\ UNCHANGED <<ingestVars, auxVars>>

\* dispatch_webhooks: get_dispatcher() (built from the config on first use),
\* then dispatch up to `if not providers: return results`
dispatch_webhooks ==
  /\ hpc = "persisted"
  /\ LET d == IF dispatcher[ServerProc].built THEN dispatcher[ServerProc]
              ELSE [built |-> TRUE, webhooks |-> load_webhooks(configFile),
                    loaded |-> load_webhooks(configFile)]
         provs == select_providers(d.webhooks, payload_level)
     IN /\ dispatcher' = [dispatcher EXCEPT ![ServerProc] = d]
        /\ providers' = provs
        /\ futures' = [k \in DOMAIN provs |-> "new"]
        /\ sendCalls' = [k \in DOMAIN provs |-> 0]
        /\ dpc' = IF provs = <<>> THEN "returned" ELSE "submit"
  /\ hpc' = "dispatching"
  /\ collected' = {}
  /\ dresults' = EmptyDict
  /\ UNCHANGED <<configFile, cpc, cfg_local, hookUuid, cfgOpsLeft,
                 payload_level, dispatchesLeft>>
  /\ UNCHANGED <<ingestVars, auxVars>>

\* executor.submit(provider.send, payload) for the next provider
executor_submit(k) ==
  /\ dpc = "submit"
  /\ k \in DOMAIN futures
  /\ futures[k] = "new"
  /\ \A j \in 1..(k - 1) : futures[j] # "new"
  /\ futures' = [futures EXCEPT ![k] = "queued"]
  /\ dpc' = IF k = Len(providers) THEN "collect" ELSE "submit"
  /\ UNCHANGED <<configFile, dispatcher, cpc, cfg_local, hookUuid, cfgOpsLeft,
                 hpc, payload_level, providers, collected, dresults, sendCalls,
                 dispatchesLeft>>
  /\ UNCHANGED <<ingestVars, auxVars>>

\* a pool that starts a thread for every task
worker_start_unbounded(k) ==
  /\ k \in DOMAIN futures
  /\ futures[k] = "queued"
  /\ \A j \in 1..(k - 1) : futures[j] # "queued"
  /\ futures' = [futures EXCEPT ![k] = "running"]
  /\ sendCalls' = [sendCalls EXCEPT ![k] = @ + 1]
  /\ UNCHANGED <<configFile, dispatcher, cpc, cfg_local, hookUuid, cfgOpsLeft,
                 hpc, payload_level, dpc, providers, collected,
                 dresults, dispatchesLeft>>
  /\ UNCHANGED <<ingestVars, auxVars>>

\* a pool worker takes the oldest queued task and calls provider.send
worker_start(k) ==
  /\ k \in DOMAIN futures
  /\ futures[k] = "queued"
  /\ \A j \in 1..(k - 1) : futures[j] # "queued"
  /\ Cardinality({j \in DOMAIN futures : futures[j] = "running"}) < max_workers
  /\ futures' = [futures EXCEPT ![k] = "running"]
  /\ sendCalls' = [sendCalls EXCEPT ![k] = @ + 1]
  /\ UNCHANGED <<configFile, dispatcher, cpc, cfg_local, hookUuid, cfgOpsLeft,
                 hpc, payload_level, dpc, providers, collected, dresults,
                 dispatchesLeft>>
  /\ UNCHANGED <<ingestVars, auxVars>>

\* provider.send returns True or False, or raises
send_return(k, outcome) ==
  /\ k \in DOMAIN futures
  /\ futures[k] = "running"
  /\ futures' = [futures EXCEPT ![k] = outcome]
  /\ UNCHANGED <<configFile, dispatcher, cpc, cfg_local, hookUuid, cfgOpsLeft,
                 hpc, payload_level, dpc, providers, collected, dresults,
                 sendCalls, dispatchesLeft>>
  /\ UNCHANGED <<ingestVars, auxVars>>

\* one iteration of `for future in as_completed(futures)`
as_completed(k) ==
  /\ dpc = "collect"
  /\ k \in DOMAIN futures
  /\ k \notin collected
  /\ futures[k] \in Done
  /\ IF future_result(futures[k]).raises
     THEN /\ dpc' = "raised"
          /\ UNCHANGED <<collected, dresults>>
     ELSE /\ dresults' = (providers[k].id :> future_result(futures[k]).success)
                           @@ dresults
          /\ collected' = collected \cup {k}
          /\ UNCHANGED dpc
  /\ UNCHANGED <<configFile, dispatcher, cpc, cfg_local, hookUuid, cfgOpsLeft,
                 hpc, payload_level, providers, futures, sendCalls,
                 dispatchesLeft>>
  /\ UNCHANGED <<ingestVars, auxVars>>

\* the `with` block is left and dispatch returns `results`
dispatch_return ==
  /\ dpc = "collect"
  /\ dispatch_may_return(collected, futures)
  /\ dpc' = "returned"
  /\ UNCHANGED <<configFile, dispatcher, cpc, cfg_local, hookUuid, cfgOpsLeft,
                 hpc, payload_level, providers, futures, collected, dresults,
                 sendCalls, dispatchesLeft>>
  /\ UNCHANGED <<ingestVars, auxVars>>

\* dispatch_webhooks has returned: send_json_response(201, ...)
respond_201 ==
  /\ hpc = "dispatching"
  /\ dpc = "returned"
  /\ hpc' = "responded"
  /\ UNCHANGED <<configFile, dispatcher, cpc, cfg_local, hookUuid, cfgOpsLeft,
                 payload_level, dpc, providers, futures, collected, dresults,
                 sendCalls, dispatchesLeft>>
  /\ UNCHANGED <<ingestVars, auxVars>>

NextDispatch ==
  \/ \E level \in PayloadLevels : event_persisted(level)
  \/ dispatch_webhooks
  \/ \E k \in 1..(MaxHooks + 1) : executor_submit(k)
  \/ \E k \in 1..(MaxHooks + 1) : worker_start(k)
  \/ \E k \in 1..(MaxHooks + 1), outcome \in Done : send_return(k, outcome)
  \/ \E k \in 1..(MaxHooks + 1) : as_completed(k)
  \/ dispatch_return
  \/ respond_201

\* one event is dispatched against a registry found in the config file
InitDispatch ==
  /\ IngestFiles
  /\ AuxOff
  /\ opsLeft = 0
  /\ \E r \in Registries : configFile = with_webhooks(DefaultConfig, r)
  /\ dispatcher = [c \in CfgProcs |-> NoDispatcher]
  /\ ConfigQuiet
  /\ cfgOpsLeft = 0
  /\ DispatchQuiet
  /\ dispatchesLeft = 1

SpecDispatch == InitDispatch /\ [][NextDispatch]_vars

(***************************************************************************)
(* One dispatch to as many matching subscriptions as the pool has workers, *)
(* or more.                                                                *)
(***************************************************************************)
\* registries of enabled http subscriptions without an events filter
PoolRegistries ==
  { [i \in 1..n |-> WebhookConfig(i, "http", <<>>, TRUE)] :
      n \in (max_workers - 1)..MaxPoolHooks }

\* what a send returns in these runs: it reached the endpoint
PoolOutcomes == {"true"}

NextPool ==
  \/ event_persisted("error")
  \/ dispatch_webhooks
  \/ \E k \in 1..MaxPoolHooks : executor_submit(k)
  \/ \E k \in 1..MaxPoolHooks : worker_start(k)
  \/ \E k \in 1..MaxPoolHooks, outcome \in PoolOutcomes :
        send_return(k, outcome)
  \/ \E k \in 1..MaxPoolHooks : as_completed(k)
  \/ dispatch_return
  \/ respond_201

InitPool ==
  /\ IngestFiles
  /\ AuxOff
  /\ opsLeft = 0
  /\ \E r \in PoolRegistries : configFile = with_webhooks(DefaultConfig, r)
  /\ dispatcher = [c \in CfgProcs |-> NoDispatcher]
  /\ ConfigQuiet
  /\ cfgOpsLeft = 0
  /\ DispatchQuiet
  /\ dispatchesLeft = 1

SpecPool == InitPool /\ [][NextPool]_vars

\* the threads of the dispatch run: the caller goes on submitting and
\* collecting, an idle worker takes a queued task, and a send returns
\* (urlopen is called with timeout=10)
PoolFairness ==
  /\ WF_vars(dispatch_webhooks)
  /\ WF_vars(\E k \in 1..MaxPoolHooks : executor_submit(k))
  /\ WF_vars(\E k \in 1..MaxPoolHooks : worker_start(k))
  /\ WF_vars(\E k \in 1..MaxPoolHooks, outcome \in PoolOutcomes :
               send_return(k, outcome))
  /\ WF_vars(\E k \in 1..MaxPoolHooks : as_completed(k))
  /\ WF_vars(dispatch_return)

SpecPoolLive == SpecPool /\ PoolFairness

(***************************************************************************)
(* POST /api/v1/batch on a server whose config holds a webhook registry.   *)
(***************************************************************************)
\* the elements a client sends: a message and a level of every shape
LevelBodies ==
  {[Body("oom") EXCEPT !.level = l] : l \in {Absent, Str("CRITICAL"), Num("5")}}

NextHooked ==
  \/ handle_batch_begin(ServerProc, ListOf(BatchLen))
  \/ handle_batch_next(ServerProc, client_body)
  \/ create_issue(ServerProc)
  \/ persist_event(ServerProc)
  \/ dispatch_event(ServerProc)
  \/ respond_batch(ServerProc)

\* a fresh vault whose config holds some registry; the client sends batches
\* of copies of one object
InitHooked ==
  /\ IngestFiles
  /\ opsLeft = MaxBatchOps
  /\ configFile \in {with_webhooks(DefaultConfig, r) : r \in Registries}
  /\ dispatcher = [c \in CfgProcs |-> NoDispatcher]
  /\ ConfigQuiet
  /\ cfgOpsLeft = 0
  /\ DispatchQuiet
  /\ dispatchesLeft = 0
  /\ ret = "none"
  /\ client_body \in LevelBodies
  /\ StoreOff

SpecHooked == InitHooked /\ [][NextHooked]_vars

(***************************************************************************)
(* Management of the registry and other writers of the config file.        *)
(***************************************************************************)
dispatchVars == <<hpc, payload_level, dpc, providers, futures, collected,
                  dresults, sendCalls, dispatchesLeft>>

\* what `webhook add` is called with: type and events filter
AddKinds == { <<"http", <<>>>>, <<"slack", <<"Critical">>>> }

\* the ids remove and toggle are called with
HookIds == 1..MaxCfgOps

\* what `config set` is called with
ConfigKeys == {"user"}
ConfigValues == {"alice", "bob"}

\* positions of the entries of self.webhooks with w.id == webhook_id
Positions(webhooks, id) == {i \in DOMAIN webhooks : webhooks[i].id = id}

\* del self.webhooks[i]
DelAt(webhooks, i) ==
  [j \in 1..(Len(webhooks) - 1) |-> IF j < i THEN webhooks[j] ELSE webhooks[j + 1]]

\* a CLI process builds its WebhookDispatcher: __init__ calls _load_webhooks
construct ==
  [built |-> TRUE, webhooks |-> load_webhooks(configFile),
   loaded |-> load_webhooks(configFile)]

\* a config operation that found nothing to change ends the process
cli_exit(c) ==
  /\ dispatcher' = [dispatcher EXCEPT ![c] = NoDispatcher]
  /\ cpc' = [cpc EXCEPT ![c] = "idle"]

\* WebhookDispatcher().add_webhook(type, ...) up to the call of _save_webhooks
add_webhook(c, type, events) ==
  /\ cpc[c] = "idle"
  /\ cfgOpsLeft > 0
  /\ cfgOpsLeft' = cfgOpsLeft - 1
  /\ hookUuid' = hookUuid + 1
  /\ dispatcher' = [dispatcher EXCEPT ![c] =
        [construct EXCEPT !.webhooks =
            Append(construct.webhooks,
                   WebhookConfig(hookUuid + 1, type, events, TRUE))]]
  /\ cpc' = [cpc EXCEPT ![c] = "save_load"]
  /\ UNCHANGED <<configFile, cfg_local>>
  /\ UNCHANGED dispatchVars
  /\ UNCHANGED <<ingestVars, auxVars>>

\* WebhookDispatcher().remove_webhook(id) up to the call of _save_webhooks,
\* or to `return False`
remove_webhook(c, id) ==
  /\ cpc[c] = "idle"
  /\ cfgOpsLeft > 0
  /\ cfgOpsLeft' = cfgOpsLeft - 1
  /\ LET ws == construct.webhooks
         at == Positions(ws, id)
     IN IF at = {}
        THEN cli_exit(c)
        ELSE /\ dispatcher' = [dispatcher EXCEPT ![c] =
                  [construct EXCEPT !.webhooks =
                      DelAt(ws, CHOOSE i \in at : \A j \in at : i <= j)]]
             /\ cpc' = [cpc EXCEPT ![c] = "save_load"]
  /\ UNCHANGED <<configFile, cfg_local, hookUuid>>
  /\ UNCHANGED dispatchVars
  /\ UNCHANGED <<ingestVars, auxVars>>

\* WebhookDispatcher().toggle_webhook(id, enabled) up to the call of
\* _save_webhooks, or to `return False`
toggle_webhook(c, id, enabled) ==
  /\ cpc[c] = "idle"
  /\ cfgOpsLeft > 0
  /\ cfgOpsLeft' = cfgOpsLeft - 1
  /\ LET ws == construct.webhooks
         at == Positions(ws, id)
     IN IF at = {}
        THEN cli_exit(c)
        ELSE LET i == CHOOSE i \in at : \A j \in at : i <= j
             IN /\ dispatcher' = [dispatcher EXCEPT ![c] =
                     [construct EXCEPT !.webhooks =
                         [ws EXCEPT ![i].enabled = enabled]]]
                /\ cpc' = [cpc EXCEPT ![c] = "save_load"]
  /\ UNCHANGED <<configFile, cfg_local, hookUuid>>
  /\ UNCHANGED dispatchVars
  /\ UNCHANGED <<ingestVars, auxVars>>

\* _save_webhooks: config = load_config(); config["webhooks"] = [...]
save_webhooks_load(c) ==
  /\ cpc[c] = "save_load"
  /\ cfg_local' = [cfg_local EXCEPT ![c] =
                     with_webhooks(configFile, dispatcher[c].webhooks)]
  /\ cpc' = [cpc EXCEPT ![c] = "save_write"]
  /\ UNCHANGED <<configFile, dispatcher, hookUuid, cfgOpsLeft>>
  /\ UNCHANGED dispatchVars
  /\ UNCHANGED <<ingestVars, auxVars>>

\* _save_webhooks: save_config(config); the command ends
save_webhooks_write(c) ==
  /\ cpc[c] = "save_write"
  /\ configFile' = cfg_local[c]
  /\ cfg_local' = [cfg_local EXCEPT ![c] = DefaultConfig]
  /\ cli_exit(c)
  /\ UNCHANGED <<hookUuid, cfgOpsLeft>>
  /\ UNCHANGED dispatchVars
  /\ UNCHANGED <<ingestVars, auxVars>>

\* config_set: cfg = load_config(); cfg[key] = value
config_set_load(c, key, value) ==
  /\ cpc[c] = "idle"
  /\ cfgOpsLeft > 0
  /\ cfgOpsLeft' = cfgOpsLeft - 1
  /\ cfg_local' = [cfg_local EXCEPT ![c] = ConfigSet(configFile, key, value)]
  /\ cpc' = [cpc EXCEPT ![c] = "set_write"]
  /\ UNCHANGED <<configFile, dispatcher, hookUuid>>
  /\ UNCHANGED dispatchVars
  /\ UNCHANGED <<ingestVars, auxVars>>

\* config_set: save_config(cfg)
config_set_write(c) ==
  /\ cpc[c] = "set_write"
  /\ configFile' = cfg_local[c]
  /\ cfg_local' = [cfg_local EXCEPT ![c] = DefaultConfig]
  /\ cpc' = [cpc EXCEPT ![c] = "idle"]
  /\ UNCHANGED <<dispatcher, hookUuid, cfgOpsLeft>>
  /\ UNCHANGED dispatchVars
  /\ UNCHANGED <<ingestVars, auxVars>>

NextConfig ==
  \/ \E c \in CfgCli, kind \in AddKinds : add_webhook(c, kind[1], kind[2])
  \/ \E c \in CfgCli, id \in HookIds : remove_webhook(c, id)
  \/ \E c \in CfgCli, id \in HookIds, enabled \in BOOLEAN :
        toggle_webhook(c, id, enabled)
  \/ \E c \in CfgCli : save_webhooks_load(c)
  \/ \E c \in CfgCli : save_webhooks_write(c)
  \/ \E c \in CfgCli, key \in ConfigKeys, value \in ConfigValues :
        config_set_load(c, key, value)
  \/ \E c \in CfgCli : config_set_write(c)
  \/ NextDispatch

\* a fresh vault, a running server, and CLI processes that manage the
\* registry and set config keys while the server dispatches events
InitConfig ==
  /\ IngestFiles
  /\ AuxOff
  /\ opsLeft = 0
  /\ configFile = DefaultConfig
  /\ dispatcher = [c \in CfgProcs |-> NoDispatcher]
  /\ ConfigQuiet
  /\ cfgOpsLeft = MaxCfgOps
  /\ DispatchQuiet
  /\ dispatchesLeft = MaxDispatches

SpecConfig == InitConfig /\ [][NextConfig]_vars

(***************************************************************************)
(* One WebhookDispatcher used as a library: a sequence of add_webhook,     *)
(* remove_webhook and toggle_webhook calls, each run to its return.        *)
(***************************************************************************)
\* the process that holds the dispatcher
RegProc == 1

\* the ids remove and toggle are called with: those handed out and one more
CallIds == 1..(hookUuid + 1)

\* get_dispatcher(): `_dispatcher = WebhookDispatcher()` on first use
get_dispatcher(c) ==
  /\ ~dispatcher[c].built
  /\ dispatcher' = [dispatcher EXCEPT ![c] = construct]
  /\ UNCHANGED <<configFile, cpc, cfg_local, hookUuid, cfgOpsLeft, ret,
                 client_body, serverVars, storeVars>>
  /\ UNCHANGED dispatchVars
  /\ UNCHANGED ingestVars

\* _save_webhooks from load_config() to save_config(config), for the list ws
save_webhooks(ws) == configFile' = with_webhooks(configFile, ws)

\* add_webhook(type, ..., events) from its call to its return
call_add_webhook(c, type, events) ==
  /\ dispatcher[c].built
  /\ cfgOpsLeft > 0
  /\ cfgOpsLeft' = cfgOpsLeft - 1
  /\ hookUuid' = hookUuid + 1
  /\ LET ws == Append(dispatcher[c].webhooks,
                      WebhookConfig(hookUuid + 1, type, events, TRUE))
     IN /\ dispatcher' = [dispatcher EXCEPT ![c].webhooks = ws]
        /\ save_webhooks(ws)
  /\ ret' = "added"
  /\ UNCHANGED <<cpc, cfg_local>>
  /\ UNCHANGED <<client_body, serverVars, storeVars>>
  /\ UNCHANGED dispatchVars
  /\ UNCHANGED ingestVars

\* remove_webhook(id) from its call to its return
call_remove_webhook(c, id) ==
  /\ dispatcher[c].built
  /\ cfgOpsLeft > 0
  /\ cfgOpsLeft' = cfgOpsLeft - 1
  /\ LET at == Positions(dispatcher[c].webhooks, id)
     IN IF at = {}
        THEN /\ ret' = "false"
             /\ UNCHANGED <<configFile, dispatcher>>
        ELSE LET ws == DelAt(dispatcher[c].webhooks,
                             CHOOSE i \in at : \A j \in at : i <= j)
             IN /\ dispatcher' = [dispatcher EXCEPT ![c].webhooks = ws]
                /\ save_webhooks(ws)
                /\ ret' = "true"
  /\ UNCHANGED <<cpc, cfg_local, hookUuid>>
  /\ UNCHANGED <<client_body, serverVars, storeVars>>
  /\ UNCHANGED dispatchVars
  /\ UNCHANGED ingestVars

\* toggle_webhook(id, enabled) from its call to its return
call_toggle_webhook(c, id, enabled) ==
  /\ dispatcher[c].built
  /\ cfgOpsLeft > 0
  /\ cfgOpsLeft' = cfgOpsLeft - 1
  /\ LET at == Positions(dispatcher[c].webhooks, id)
     IN IF at = {}
        THEN /\ ret' = "false"
             /\ UNCHANGED <<configFile, dispatcher>>
        ELSE LET i == CHOOSE i \in at : \A j \in at : i <= j
                 ws == [dispatcher[c].webhooks EXCEPT ![i].enabled = enabled]
             IN /\ dispatcher' = [dispatcher EXCEPT ![c].webhooks = ws]
                /\ save_webhooks(ws)
                /\ ret' = "true"
  /\ UNCHANGED <<cpc, cfg_local, hookUuid>>
  /\ UNCHANGED <<client_body, serverVars, storeVars>>
  /\ UNCHANGED dispatchVars
  /\ UNCHANGED ingestVars

NextRegistry ==
  \/ get_dispatcher(RegProc)
  \/ \E kind \in AddKinds : call_add_webhook(RegProc, kind[1], kind[2])
  \/ \E id \in CallIds : call_remove_webhook(RegProc, id)
  \/ \E id \in CallIds, enabled \in BOOLEAN :
        call_toggle_webhook(RegProc, id, enabled)

\* a fresh vault and one process that manages the registry
InitRegistry ==
  /\ IngestFiles
  /\ AuxOff
  /\ opsLeft = 0
  /\ configFile = DefaultConfig
  /\ dispatcher = [c \in CfgProcs |-> NoDispatcher]
  /\ ConfigQuiet
  /\ cfgOpsLeft = MaxRegOps
  /\ DispatchQuiet
  /\ dispatchesLeft = 0

SpecRegistry == InitRegistry /\ [][NextRegistry]_vars

(***************************************************************************)
(* The event store as a directory: the writers of event files and          *)
(* load_events, interleaved at every file operation.                       *)
(***************************************************************************)
\* event_path_for(event_id, ts): "<event_id>.json" in the day directory
event_path_for(event_id) == <<event_id, "json">>

\* Path.with_suffix(path.suffix + ".tmp"): "<event_id>.json.tmp"
with_suffix_inPlace(path) == path
with_suffix(path) == Append(path, "tmp")

\* the names a glob for "*.json" selects: those whose last part is "json"
glob(names) == {f \in names : f[Len(f)] = "json"}

\* the bytes of a file: the first `len` chunks of the document of event
\* `id`, or bytes that are not JSON ("{invalid json content")
Document(id, len) == [t |-> "doc", id |-> id, len |-> len]
Junk == [t |-> "junk", id |-> 0, len |-> 0]

\* json.loads raises on anything but a whole document
json_loads_raises(content) == content.t # "doc" \/ content.len < DocChunks

Names(dir) == {f.name : f \in dir}
read_text(dir, name) == (CHOOSE f \in dir : f.name = name).content
unlink(dir, name) == {f \in dir : f.name # name}
write(dir, name, content) ==
  unlink(dir, name) \cup {[name |-> name, content |-> content]}

\* the files of the tree that are not event documents; their stems are the
\* negative numbers
CorruptFiles(n) ==
  {[name |-> <<0 - i, "json">>, content |-> Junk] : i \in 1..n}

\* event_id = str(uuid.uuid4()); path = event_path_for(event_id, ts);
\* tmp = path.with_suffix(...); open(tmp, "w") creates the empty file
open_tmp(w) ==
  /\ spc[w] = "idle"
  /\ opsLeft > 0
  /\ opsLeft' = opsLeft - 1
  /\ uuidCount' = uuidCount + 1
  /\ LET path == event_path_for(uuidCount + 1)
     IN /\ wpath' = [wpath EXCEPT ![w] = path]
        /\ tree' = write(tree, with_suffix(path), Document(uuidCount + 1, 0))
  /\ spc' = [spc EXCEPT ![w] = "dump"]
  /\ UNCHANGED <<globbed, todo, loaded, observed, ret, client_body, serverVars,
                 issueFileVars>>
  /\ UNCHANGED <<issuesFile, eventFiles, pc, request, local_issues,
                 local_issue, created_new, local_event, results, dispatched,
                 responses, assignedIds>>
  /\ UNCHANGED hookVars

\* json.dump(event_data, f, indent=2): the next write() to the open file;
\* after the last one the `with` block closes it
json_dump(w) ==
  /\ spc[w] = "dump"
  /\ LET tmp == with_suffix(wpath[w])
         content == read_text(tree, tmp)
     IN /\ tree' = write(tree, tmp, [content EXCEPT !.len = @ + 1])
        /\ spc' = [spc EXCEPT ![w] = IF content.len + 1 = DocChunks
                                     THEN "replace" ELSE "dump"]
  /\ UNCHANGED <<wpath, globbed, todo, loaded, observed, ret, client_body, serverVars,
                 issueFileVars>>
  /\ UNCHANGED <<ingestVars, hookVars>>

\* os.replace(tmp, path): the name `tmp` goes, `path` names the file
os_replace(w) ==
  /\ spc[w] = "replace"
  /\ LET tmp == with_suffix(wpath[w])
     IN tree' = write(unlink(tree, tmp), wpath[w], read_text(tree, tmp))
  /\ spc' = [spc EXCEPT ![w] = "idle"]
  /\ wpath' = [wpath EXCEPT ![w] = NoPath]
  /\ UNCHANGED <<globbed, todo, loaded, observed, ret, client_body, serverVars,
                 issueFileVars>>
  /\ UNCHANGED <<ingestVars, hookVars>>

\* load_events(): events = []; EVENTS_DIR.glob("**/*.json") lists the tree
load_events_glob ==
  /\ spc[Reader] = "idle"
  /\ opsLeft > 0
  /\ opsLeft' = opsLeft - 1
  /\ globbed' = glob(Names(tree))
  /\ todo' = glob(Names(tree))
  /\ loaded' = {}
  /\ spc' = [spc EXCEPT ![Reader] = "read"]
  /\ UNCHANGED <<tree, wpath, observed, ret, client_body, serverVars, issueFileVars>>
  /\ UNCHANGED <<issuesFile, eventFiles, uuidCount, pc, request, local_issues,
                 local_issue, created_new, local_event, results, dispatched,
                 responses, assignedIds>>
  /\ UNCHANGED hookVars

\* one turn of the loop: ev = json.loads(f.read_text()); events.append(ev),
\* and `continue` when anything raised
load_events_read_noExcept ==
  /\ spc[Reader] = "read"
  /\ \E f \in todo :
     /\ todo' = todo \ {f}
     /\ IF f \notin Names(tree)
        THEN /\ spc' = [spc EXCEPT ![Reader] = "raised"]
             /\ UNCHANGED <<loaded, observed>>
        ELSE LET content == read_text(tree, f)
             IN /\ observed' = observed \cup {content}
                /\ IF json_loads_raises(content)
                   THEN /\ spc' = [spc EXCEPT ![Reader] = "raised"]
                        /\ UNCHANGED loaded
                   ELSE /\ loaded' = loaded \cup {content}
                        /\ UNCHANGED spc
  /\ UNCHANGED <<tree, wpath, globbed, ret, client_body, serverVars, issueFileVars>>
  /\ UNCHANGED <<ingestVars, hookVars>>
load_events_read ==
  /\ spc[Reader] = "read"
  /\ \E f \in todo :
     /\ todo' = todo \ {f}
     /\ IF f \notin Names(tree)
        THEN UNCHANGED <<loaded, observed>>
        ELSE LET content == read_text(tree, f)
             IN /\ observed' = observed \cup {content}
                /\ IF json_loads_raises(content)
                   THEN UNCHANGED loaded
                   ELSE loaded' = loaded \cup {content}
  /\ UNCHANGED <<tree, spc, wpath, globbed, ret, client_body, serverVars,
                 issueFileVars>>
  /\ UNCHANGED <<ingestVars, hookVars>>

\* return events
load_events_return ==
  /\ spc[Reader] = "read"
  /\ todo = {}
  /\ spc' = [spc EXCEPT ![Reader] = "idle"]
  /\ UNCHANGED <<tree, wpath, globbed, todo, loaded, observed, ret,
                 client_body, serverVars, issueFileVars>>
  /\ UNCHANGED <<ingestVars, hookVars>>

NextStore ==
  \/ \E w \in Writers : open_tmp(w)
  \/ \E w \in Writers : json_dump(w)
  \/ \E w \in Writers : os_replace(w)
  \/ load_events_glob
  \/ load_events_read
  \/ load_events_return

\* a vault without webhooks whose tree holds some files that are not JSON
InitStore ==
  /\ IngestFiles
  /\ opsLeft = MaxStoreOps
  /\ configFile = DefaultConfig
  /\ dispatcher = [c \in CfgProcs |-> NoDispatcher]
  /\ ConfigQuiet
  /\ cfgOpsLeft = 0
  /\ DispatchQuiet
  /\ dispatchesLeft = 0
  /\ ret = "none"
  /\ client_body = <<>>
  /\ StoreQuiet
  /\ stopOpsLeft = 0
  /\ \E n \in 0..MaxCorrupt : tree = CorruptFiles(n)

SpecStore == InitStore /\ [][NextStore]_vars

(***************************************************************************)
(* ISSUES_FILE under concurrent save_issues and load_issues: names, inodes *)
(* and open files.                                                         *)
(***************************************************************************)
\* number of save_issues and load_issues calls in a run on the issues file
MaxSaveOps == 3

\* the bytes of a file after a write() of `chunk` at position `pos`
WriteAt(content, pos, chunk) ==
  [i \in 1..(IF pos > Len(content) THEN pos ELSE Len(content)) |->
     IF i = pos THEN chunk
     ELSE IF i <= Len(content) THEN content[i]
     ELSE Hole]

\* json.load accepts the text of one whole collection
json_load_raises(content) ==
  \A doc \in {0} \cup Writers : content # DocumentChunks(doc)

\* save_issues(issues) -> _write_json_atomic: tmp_path = "issues.json.tmp";
\* open(tmp_path, "w") truncates the file of that name or creates it
issues_open_tmp(w) ==
  /\ spc[w] \in {"idle", "raised"}
  /\ opsLeft > 0
  /\ opsLeft' = opsLeft - 1
  /\ LET tmp == with_suffix(ISSUES_FILE)
     IN IF tmp \in DOMAIN links
        THEN /\ inodes' = [inodes EXCEPT ![links[tmp]] = <<>>]
             /\ fds' = [fds EXCEPT ![w] = [ino |-> links[tmp], pos |-> 1]]
             /\ UNCHANGED links
        ELSE /\ inodes' = Append(inodes, <<>>)
             /\ links' = [n \in DOMAIN links \cup {tmp} |->
                            IF n = tmp THEN Len(inodes) + 1 ELSE links[n]]
             /\ fds' = [fds EXCEPT ![w] = [ino |-> Len(inodes) + 1, pos |-> 1]]
  /\ spc' = [spc EXCEPT ![w] = "issues_dump"]
  /\ UNCHANGED <<tree, wpath, globbed, todo, loaded, observed, ret,
                 client_body, serverVars>>
  /\ UNCHANGED <<issuesFile, eventFiles, uuidCount, pc, request, local_issues,
                 local_issue, created_new, local_event, results, dispatched,
                 responses, assignedIds>>
  /\ UNCHANGED hookVars

\* json.dump(data, f, indent=2): the next write() through the open file;
\* after the last one the `with` block closes it
issues_json_dump(w) ==
  /\ spc[w] = "issues_dump"
  /\ inodes' = [inodes EXCEPT ![fds[w].ino] =
                  WriteAt(@, fds[w].pos, Chunk(w, fds[w].pos))]
  /\ IF fds[w].pos = DocChunks
     THEN /\ fds' = [fds EXCEPT ![w] = NoFd]
          /\ spc' = [spc EXCEPT ![w] = "issues_replace"]
     ELSE /\ fds' = [fds EXCEPT ![w].pos = @ + 1]
          /\ UNCHANGED spc
  /\ UNCHANGED <<tree, wpath, globbed, todo, loaded, observed, links, ret,
                 client_body, serverVars>>
  /\ UNCHANGED <<ingestVars, hookVars>>

\* os.replace(tmp_path, path): FileNotFoundError when the name is gone
issues_os_replace(w) ==
  /\ spc[w] = "issues_replace"
  /\ LET tmp == with_suffix(ISSUES_FILE)
     IN IF tmp \in DOMAIN links
        THEN /\ links' = [n \in (DOMAIN links \ {tmp}) \cup {ISSUES_FILE} |->
                            IF n = ISSUES_FILE THEN links[tmp] ELSE links[n]]
             /\ spc' = [spc EXCEPT ![w] = "idle"]
        ELSE /\ spc' = [spc EXCEPT ![w] = "raised"]
             /\ UNCHANGED links
  /\ UNCHANGED <<tree, wpath, globbed, todo, loaded, observed, inodes, fds,
                 ret, client_body, serverVars>>
  /\ UNCHANGED <<ingestVars, hookVars>>

\* load_issues(): with open(ISSUES_FILE, "r") as f: return json.load(f)
load_issues ==
  /\ spc[Reader] \in {"idle", "raised"}
  /\ opsLeft > 0
  /\ opsLeft' = opsLeft - 1
  /\ LET content == inodes[links[ISSUES_FILE]]
     IN /\ observed' = observed \cup {content}
        /\ spc' = [spc EXCEPT ![Reader] =
                     IF json_load_raises(content) THEN "raised" ELSE "idle"]
  /\ UNCHANGED <<tree, wpath, globbed, todo, loaded, issueFileVars, ret,
                 client_body, serverVars>>
  /\ UNCHANGED <<issuesFile, eventFiles, uuidCount, pc, request, local_issues,
                 local_issue, created_new, local_event, results, dispatched,
                 responses, assignedIds>>
  /\ UNCHANGED hookVars

NextIssuesFile ==
  \/ \E w \in Writers : issues_open_tmp(w)
  \/ \E w \in Writers : issues_json_dump(w)
  \/ \E w \in Writers : issues_os_replace(w)
  \/ load_issues

InitIssuesFile == IngestFiles /\ opsLeft = MaxSaveOps /\ HooksOff

SpecIssuesFile == InitIssuesFile /\ [][NextIssuesFile]_vars

(***************************************************************************)
(* `add` and `purge` from one terminal, one command after the other.       *)
(***************************************************************************)
\* number of commands typed in a run of adds and purges
MaxPurgeOps == 5

\* the process of the terminal
PurgeCli == 1

\* @click.confirmation_option: an answer other than yes aborts the command
\* ("Aborted!", exit code 1) before purge() is entered
purge_declined(p, id) ==
  /\ UNCHANGED <<hookVars, auxVars>>
  /\ p \in CliProcs
  /\ pc[p] = "idle"
  /\ opsLeft > 0
  /\ opsLeft' = opsLeft - 1
  /\ responses' = Sent(Response("purge", 1, "", 0, id, FALSE, <<>>))
  /\ UNCHANGED <<issuesFile, eventFiles, uuidCount, pc, request, local_issues,
                 local_issue, created_new, local_event, results, dispatched,
                 assignedIds>>

NextPurge ==
  \/ \E m \in Messages \cup {LongMessage} : add(PurgeCli, m)
  \/ create_issue(PurgeCli)
  \/ persist_event(PurgeCli)
  \/ respond_event(PurgeCli)
  \/ \E id \in PurgeIds : purge_load(PurgeCli, id)
  \/ purge_save(PurgeCli)
  \/ purge_events(PurgeCli)
  \/ \E id \in PurgeIds : purge_declined(PurgeCli, id)

InitPurge == IngestFiles /\ opsLeft = MaxPurgeOps /\ HooksOff

SpecPurge == InitPurge /\ [][NextPurge]_vars

(***************************************************************************)
(* `crashvault server stop` against the server's signal handler.           *)
(***************************************************************************)
StopFrame == UNCHANGED <<ingestVars, hookVars, ret, client_body, storeVars>>

\* stop_server: `if not PID_FILE.exists(): return False, "No server running"`
stop_server(s) ==
  /\ stop_pc[s] = "idle"
  /\ stopOpsLeft > 0
  /\ stopOpsLeft' = stopOpsLeft - 1
  /\ stop_sent' = [stop_sent EXCEPT ![s] = FALSE]
  /\ IF pidFile
     THEN /\ stop_pc' = [stop_pc EXCEPT ![s] = "read"]
          /\ stop_ret' = [stop_ret EXCEPT ![s] = "none"]
     ELSE /\ stop_ret' = [stop_ret EXCEPT ![s] = "No server running"]
          /\ UNCHANGED stop_pc
  /\ UNCHANGED <<pidFile, server, sigterm>>
  /\ StopFrame

\* pid = int(PID_FILE.read_text().strip()); FileNotFoundError is caught by
\* `except Exception as e: return False, str(e)`
stop_read(s) ==
  /\ stop_pc[s] = "read"
  /\ IF pidFile
     THEN /\ stop_pc' = [stop_pc EXCEPT ![s] = "kill"]
          /\ UNCHANGED stop_ret
     ELSE /\ stop_pc' = [stop_pc EXCEPT ![s] = "idle"]
          /\ stop_ret' = [stop_ret EXCEPT ![s] = "error"]
  /\ UNCHANGED <<pidFile, server, sigterm, stop_sent, stopOpsLeft>>
  /\ StopFrame

\* os.kill(pid, signal.SIGTERM): the signal is left pending for a process
\* that exists; ProcessLookupError for one that is gone
stop_kill(s) ==
  /\ stop_pc[s] = "kill"
  /\ IF server # "gone"
     THEN /\ sigterm' = TRUE
          /\ stop_sent' = [stop_sent EXCEPT ![s] = TRUE]
          /\ stop_pc' = [stop_pc EXCEPT ![s] = "unlink"]
     ELSE /\ stop_pc' = [stop_pc EXCEPT ![s] = "stale"]
          /\ UNCHANGED <<sigterm, stop_sent>>
  /\ UNCHANGED <<pidFile, server, stop_ret, stopOpsLeft>>
  /\ StopFrame

\* PID_FILE.unlink(); return True, "Server (PID ...) stopped"; the
\* FileNotFoundError of unlink is caught by `except Exception`
stop_unlink(s) ==
  /\ stop_pc[s] = "unlink"
  /\ pidFile' = FALSE
  /\ stop_ret' = [stop_ret EXCEPT ![s] = IF pidFile THEN "stopped" ELSE "error"]
  /\ stop_pc' = [stop_pc EXCEPT ![s] = "idle"]
  /\ UNCHANGED <<server, sigterm, stop_sent, stopOpsLeft>>
  /\ StopFrame

\* except ProcessLookupError: PID_FILE.unlink(); return False, "Server was
\* not running (stale PID file removed)"; an exception of this unlink
\* leaves stop_server
stop_stale(s) ==
  /\ stop_pc[s] = "stale"
  /\ pidFile' = FALSE
  /\ stop_ret' = [stop_ret EXCEPT ![s] = IF pidFile THEN "stale" ELSE "raised"]
  /\ stop_pc' = [stop_pc EXCEPT ![s] = "idle"]
  /\ UNCHANGED <<server, sigterm, stop_sent, stopOpsLeft>>
  /\ StopFrame

\* the pending signal is handled: cleanup(signum, frame) starts in the
\* server's main thread (also while an earlier cleanup waits in shutdown)
cleanup ==
  /\ sigterm
  /\ server \in {"serving", "shutdown"}
  /\ sigterm' = FALSE
  /\ server' = "cleanup"
  /\ UNCHANGED <<pidFile, stop_pc, stop_ret, stop_sent, stopOpsLeft>>
  /\ StopFrame

\* cleanup: `if PID_FILE.exists():`
cleanup_exists ==
  /\ server = "cleanup"
  /\ server' = IF pidFile THEN "unlink" ELSE "shutdown"
  /\ UNCHANGED <<pidFile, sigterm, stop_pc, stop_ret, stop_sent, stopOpsLeft>>
  /\ StopFrame

\* cleanup: PID_FILE.unlink(), then server.shutdown(); a FileNotFoundError
\* leaves the handler and serve_forever, and the process ends
cleanup_unlink ==
  /\ server = "unlink"
  /\ pidFile' = FALSE
  /\ server' = IF pidFile THEN "shutdown" ELSE "gone"
  /\ UNCHANGED <<sigterm, stop_pc, stop_ret, stop_sent, stopOpsLeft>>
  /\ StopFrame

\* cleanup: server.shutdown() has returned; sys.exit(0)
cleanup_exit ==
  /\ server = "shutdown"
  /\ server' = "gone"
  /\ sigterm' = FALSE
  /\ UNCHANGED <<pidFile, stop_pc, stop_ret, stop_sent, stopOpsLeft>>
  /\ StopFrame

NextStop ==
  \/ \E s \in Stoppers : stop_server(s)
  \/ \E s \in Stoppers : stop_read(s)
  \/ \E s \in Stoppers : stop_kill(s)
  \/ \E s \in Stoppers : stop_unlink(s)
  \/ \E s \in Stoppers : stop_stale(s)
  \/ cleanup
  \/ cleanup_exists
  \/ cleanup_unlink
  \/ cleanup_exit

\* a fresh vault and a running server; `server stop` is run from the
\* terminals
InitStop ==
  /\ IngestFiles
  /\ opsLeft = 0
  /\ configFile = DefaultConfig
  /\ dispatcher = [c \in CfgProcs |-> NoDispatcher]
  /\ ConfigQuiet
  /\ cfgOpsLeft = 0
  /\ DispatchQuiet
  /\ dispatchesLeft = 0
  /\ ret = "none"
  /\ client_body = <<>>
  /\ tree = {}
  /\ StoreQuiet
  /\ stopOpsLeft = MaxStopOps

SpecStop == InitStop /\ [][NextStop]_vars

(***************************************************************************)
(* Properties of the issue collection and the event store.                 *)
(***************************************************************************)
Idle == \A p \in Procs : pc[p] = "idle"

\* ids that have been in the persisted collection at some time
EverIds == {assignedIds[i] : i \in DOMAIN assignedIds}

IssuesWith(fp) == {i \in DOMAIN issuesFile : issuesFile[i].fingerprint = fp}

IsSubmission(r) == r.op \in {"event", "add"} /\ r.status = 201

\* C1: no two issues of the collection share an id, and every newly created
\* issue gets an id greater than every id assigned before it (no id is ever
\* reused, also after a purge).
C1_IdsUniqueNeverReused ==
  /\ \A i, j \in DOMAIN issuesFile :
        i # j => issuesFile[i].id # issuesFile[j].id
  /\ \A i, j \in DOMAIN assignedIds :
        i < j => assignedIds[i] < assignedIds[j]

C3_SameMessageSameIssue ==
  \A k \in 1..(Len(responses) - 1) :
     LET a == responses[k]
         b == responses[k + 1]
     IN (IsSubmission(a) /\ IsSubmission(b) /\ a.message = b.message) =>
          /\ b.issue_id = a.issue_id
          /\ b.issue_created = FALSE
          /\ a.event_id # b.event_id
          /\ (k + 1 = Len(responses) /\ Idle) =>
               /\ Cardinality(IssuesWith(Fingerprint(b.message))) = 1
               /\ \A r \in {a, b} :
                     \E e \in eventFiles :
                        /\ e.event_id = r.event_id
                        /\ e.issue_id = b.issue_id
                        /\ e.message = r.message

\* the last two operations were submissions of one message
C3_Witness ==
  /\ Idle
  /\ Len(responses) >= 2
  /\ IsSubmission(responses[Len(responses) - 1])
  /\ IsSubmission(responses[Len(responses)])
  /\ responses[Len(responses) - 1].message = responses[Len(responses)].message

Registry == dispatcher[ServerProc].webhooks

\* the ids of the registry's subscriptions among the set ws
RegistryIds(ws) == {Registry[i].id : i \in {j \in DOMAIN Registry : Registry[j] \in ws}}

\* the registry's subscriptions as a set
Subscriptions == {Registry[i] : i \in DOMAIN Registry}

\* the subscription's events filter matches the payload's level
FilterMatches(w) ==
  \/ w.events = <<>>
  \/ \E i \in DOMAIN w.events : Lower(w.events[i]) = Lower(payload_level)

EnabledAndMatching(w) == w.enabled /\ FilterMatches(w)
Deliverable(w) == w.enabled /\ FilterMatches(w) /\ w.type \in RegisteredTypes

InFlight == {k \in DOMAIN futures : futures[k] \in {"queued", "running"}}

\* C5: the 201 response is sent without waiting for the webhook deliveries
\* of the event: while a delivery is still in flight the handler can respond.
C5_ResponseNotBlocked ==
  (hpc = "dispatching" /\ InFlight # {}) => ENABLED respond_201

C7_RaisedSendRecordedFalse ==
  /\ dpc # "raised"
  /\ dpc = "returned" =>
       \A k \in DOMAIN providers :
          futures[k] = "raised" =>
            /\ providers[k].id \in DOMAIN dresults
            /\ dresults[providers[k].id] = FALSE
            /\ \A j \in DOMAIN providers \ {k} :
                  /\ sendCalls[j] = 1
                  /\ providers[j].id \in DOMAIN dresults
                  /\ dresults[providers[j].id] = (futures[j] = "true")

\* dispatch returned after one send raised and another succeeded
C7_Witness ==
  /\ dpc = "returned"
  /\ \E k, j \in DOMAIN providers :
        /\ futures[k] = "raised"
        /\ futures[j] = "true"
        /\ dresults[providers[j].id] = TRUE

\* C8: once dispatch has returned, the send of every matching subscription
\* has been invoked exactly once and has completed or failed; none is still
\* queued or running, so none starts after the return.
C8_AllSendsDoneAtReturn ==
  dpc = "returned" =>
    /\ RegistryIds({w \in Subscriptions : Deliverable(w)}) = {providers[k].id : k \in DOMAIN providers}
    /\ \A k \in DOMAIN providers : sendCalls[k] = 1 /\ futures[k] \in Done

\* the response was sent after a dispatch with two sends, one of them failed
C8_Witness ==
  /\ hpc = "responded"
  /\ Len(providers) >= 2
  /\ \E k \in DOMAIN providers : futures[k] = "false"

(***************************************************************************)
(* Properties of the registry and the config file.                         *)
(***************************************************************************)
\* C9: every dispatch_webhooks call delivers to the subscriptions of the
\* registry as persisted in the config file when the call begins, whichever
\* dispatcher instance or process persisted it.
C9_DispatchUsesPersistedRegistry ==
  [][dispatch_webhooks =>
       providers' = select_providers(load_webhooks(configFile), payload_level)]_vars

\* C10: persisting the registry changes only the "webhooks" key of the config
\* file: every other top-level key is still there with the same value, in
\* every interleaving with config set.
C10_SaveChangesOnlyWebhooksKey ==
  [][(\E c \in CfgCli : save_webhooks_write(c)) =>
       \A k \in DOMAIN configFile \ {"webhooks"} :
          k \in DOMAIN configFile' /\ configFile'[k] = configFile[k]]_vars

\* the persisted list data and the in-memory list ws describe the same
\* subscriptions in the same order
SameRegistry(data, ws) ==
  /\ Len(data) = Len(ws)
  /\ \A i \in DOMAIN ws :
        /\ data[i].id = ws[i].id
        /\ data[i].type = ws[i].type
        /\ data[i].events = ws[i].events
        /\ data[i].enabled = ws[i].enabled

\* a remove or toggle call for id is returning
RemoveOrToggle(id) ==
  \/ call_remove_webhook(RegProc, id)
  \/ \E enabled \in BOOLEAN : call_toggle_webhook(RegProc, id, enabled)

\* C11: after any sequence of add, remove and toggle calls on one dispatcher
\* the persisted "webhooks" list equals the in-memory registry; remove and
\* toggle return true iff a subscription with that id existed, and when they
\* return false neither the config file nor the registry changes.
C11_PersistedEqualsRegistry ==
  /\ [](dispatcher[RegProc].built =>
          SameRegistry(ConfigGet(configFile, "webhooks", <<>>),
                       dispatcher[RegProc].webhooks))
  /\ [][\A id \in CallIds :
          RemoveOrToggle(id) =>
            LET existed == \E i \in DOMAIN dispatcher[RegProc].webhooks :
                              dispatcher[RegProc].webhooks[i].id = id
            IN /\ ret' = (IF existed THEN "true" ELSE "false")
               /\ ~existed => UNCHANGED <<configFile, dispatcher>>]_vars

\* after two adds, a toggle and a remove the registry holds one disabled
\* subscription
C11_Witness ==
  /\ ret = "true"
  /\ hookUuid = 2
  /\ Len(dispatcher[RegProc].webhooks) = 1
  /\ ~dispatcher[RegProc].webhooks[1].enabled
  /\ cfgOpsLeft = 0

\* level strings that differ in letter case only
CaseClasses == { {"error", "ERROR"}, {"critical", "Critical", "CRITICAL"} }
SameLevel(a, b) == a = b \/ \E cls \in CaseClasses : a \in cls /\ b \in cls

\* what should_send is to return for subscription w and a payload of `level`
ExpectedSend(w, level) ==
  /\ w.enabled
  /\ \/ w.events = <<>>
     \/ \E i \in DOMAIN w.events : SameLevel(w.events[i], level)

\* C12: should_send is false for a disabled subscription; for an enabled one
\* it is true when the events filter is absent or empty and otherwise true
\* iff the payload's level is in the filter, letter case ignored; dispatch
\* selects the subscriptions of registered types accordingly.
C12_ShouldSend ==
  hpc = "dispatching" =>
    \A i \in DOMAIN Registry :
       LET w == Registry[i]
       IN /\ should_send(w, payload_level) = ExpectedSend(w, payload_level)
          /\ has_provider(w) =>
               ((\E k \in DOMAIN providers : providers[k].id = w.id)
                  <=> ExpectedSend(w, payload_level))

\* a payload of level "error" met a filter <<"Critical">> (rejected), a
\* disabled subscription (rejected) and an unfiltered one (selected)
C12_Witness ==
  /\ hpc = "dispatching"
  /\ payload_level = "error"
  /\ Len(providers) = 1
  /\ providers[1].events = <<>>
  /\ \E i, j \in DOMAIN Registry :
        /\ Registry[i].enabled /\ Registry[i].events = <<"Critical">>
        /\ ~Registry[j].enabled

(***************************************************************************)
(* Properties of request validation and batches.                           *)
(***************************************************************************)
\* the `op` of the responses the HTTP endpoint sends
HttpOps == {"event", "batch", "post"}

\* the response the step sends, NoResponse if it sends none or not as the
\* whole of a request
NoResponse == Response("none", 0, "", 0, 0, FALSE, <<>>)
LastResponse(log) == IF log = <<>> THEN NoResponse ELSE log[Len(log)]

\* this step is a whole request of the endpoint, answered 4xx
Answers4xx ==
  /\ opsLeft' = opsLeft - 1
  /\ pc' = pc
  /\ responses' = Sent(LastResponse(responses'))
  /\ LastResponse(responses').op \in HttpOps
  /\ LastResponse(responses').status \in 400..499

\* C13: a request the endpoint answers with a 4xx status leaves the issue
\* collection and the event store unchanged and dispatches no webhook.
C13_RejectedRequestWritesNothing ==
  [][Answers4xx => UNCHANGED <<issuesFile, eventFiles, dispatched>>]_vars

\* a batch was answered 400 after an accepted submission had stored an issue
\* and an event
C13_Witness ==
  /\ issuesFile # <<>>
  /\ eventFiles # {}
  /\ Len(responses) = 2
  /\ responses[1].status = 201
  /\ responses[2].op = "batch" /\ responses[2].status = 400

\* C14: a batch of more than 100 elements is answered 400 and none of its
\* elements is processed; a batch of exactly 100 elements is accepted.
C14_OversizedBatchRejectedWhole ==
  /\ [][\A n \in 99..102 :
          handle_batch_begin(ServerProc, ListOf(n)) =>
            IF n > 100
            THEN /\ LastResponse(responses').status = 400
                 /\ pc'[ServerProc] = "idle"
                 /\ UNCHANGED <<issuesFile, eventFiles, dispatched>>
            ELSE /\ pc'[ServerProc] = "batch"
                 /\ request'[ServerProc].len = n
                 /\ UNCHANGED responses]_vars
  /\ [](pc[ServerProc] # "idle" => request[ServerProc].len <= 100)

\* a batch of 100 elements was answered 201 with 100 results
C14_Witness ==
  /\ LastResponse(responses).op = "batch"
  /\ LastResponse(responses).status = 201
  /\ Len(LastResponse(responses).results) = 100
  /\ Cardinality(eventFiles) >= 100

\* C15: in a batch of at most 100 elements every element with a non-empty
\* message is processed (one event persisted, one result, in input order)
\* and every other element is skipped without aborting the batch: no batch
\* ends without its response, and the response has one result per valid
\* element, each naming an event that is stored.
C15_BatchProcessesEveryValidElement ==
  /\ [](\A i \in DOMAIN responses :
          responses[i].op = "batch" => responses[i].status \in {201, 400})
  /\ [][respond_batch(ServerProc) =>
          LET res == results[ServerProc]
          IN /\ Len(res) = request[ServerProc].valid
             /\ \A i \in DOMAIN res :
                   \E e \in eventFiles :
                      e.event_id = res[i].event_id /\ e.issue_id = res[i].issue_id
             /\ \A i, j \in DOMAIN res :
                   i < j => res[i].event_id < res[j].event_id]_vars

(***************************************************************************)
(* Properties of normalization.                                            *)
(***************************************************************************)
\* the stored event with the given id
StoredEvent(id) == CHOOSE e \in eventFiles : e.event_id = id

\* the fields of a stored event that normalization decides
NormalizedFields(e) == <<e.stacktrace, e.level, e.tags, e.context>>

\* C16: a batch element is normalized exactly like a single submission: the
\* event stored for the object sent as the only element of a batch has the
\* same stacktrace, level, tags and context as the event stored for the same
\* object sent to POST /api/v1/events.
C16_BatchElementNormalizedLikeSingle ==
  \A i, j \in DOMAIN responses :
     ( /\ responses[i].op = "event" /\ responses[i].status = 201
       /\ responses[j].op = "batch" /\ responses[j].status = 201
       /\ Len(responses[j].results) = 1 )
     => NormalizedFields(StoredEvent(responses[i].event_id))
          = NormalizedFields(StoredEvent(responses[j].results[1].event_id))

\* C17: every POST /api/v1/events with a non-empty message is answered 201
\* whatever its level field holds, and the stored level is one of the five
\* valid levels: a valid level in any letter case lowercased, anything else
\* "error".
C17_LevelAlwaysNormalized ==
  \A i \in DOMAIN responses :
     (responses[i].op = "event" /\ responses[i].message # NoMessage) =>
        /\ responses[i].status = 201
        /\ LET stored == StoredEvent(responses[i].event_id).level
           IN /\ stored.t = "str"
              /\ stored.v \in {"debug", "info", "warning", "error", "critical"}
              /\ stored.v = (IF client_body.level = Str("CRITICAL") THEN "critical"
                             ELSE "error")

\* the documents of the parseable files among the names `names`
ValidEvents(names) ==
  {read_text(tree, f) : f \in {g \in names \cap Names(tree) :
                                  ~json_loads_raises(read_text(tree, g))}}

Partial(content) == content.t = "doc" /\ content.len < DocChunks

\* C18: an event is written under a temporary name next to its final name
\* and renamed into place, so under any interleaving of writers and
\* readers no read by load_events, and no file a "*.json" glob selects,
\* holds a partially written event document
C18_NoPartialEventObserved ==
  /\ \A content \in observed : ~Partial(content)
  /\ \A f \in glob(Names(tree)) : ~Partial(read_text(tree, f))
  /\ \A w \in Writers :
        spc[w] \in {"dump", "replace"} =>
          /\ with_suffix(wpath[w]) \in Names(tree) \ glob(Names(tree))
          /\ wpath[w] \notin Names(tree)

\* load_events has read an event document while a writer had written only
\* a part of another one
C18_Witness ==
  /\ spc[Reader] = "read"
  /\ \E content \in observed : content.t = "doc"
  /\ \E w \in Writers :
        /\ spc[w] = "dump"
        /\ Partial(read_text(tree, with_suffix(wpath[w])))

\* C19: load_events returns exactly the events of the parseable files:
\* with N valid event files and any number of corrupt files in the tree it
\* returns the N valid events and raises nothing
C19_LoadEventsSkipsCorruptFiles ==
  /\ spc[Reader] # "raised"
  /\ loaded = ValidEvents(globbed \ todo)
  /\ spc[Reader] = "idle" => todo = {}

\* load_events returned two events from a tree with a corrupt file
C19_Witness ==
  /\ spc[Reader] = "idle"
  /\ Cardinality(loaded) = 2
  /\ \E f \in globbed : json_loads_raises(read_text(tree, f))

\* the issues of `issues` whose id is not `id`, as a set
OtherIssues(issues, id) ==
  {issues[i] : i \in {j \in DOMAIN issues : issues[j].id # id}}

\* this step is `purge id` finding no issue, or the declined confirmation
PurgeWithoutEffect ==
  /\ opsLeft' = opsLeft - 1
  /\ pc' = pc
  /\ LastResponse(responses').op = "purge"

\* C20: purge <id> on an existing issue removes exactly that issue from the
\* collection and deletes exactly the event files whose issue_id is <id>,
\* leaving every other issue and event unchanged; a declined confirmation
\* or an id no issue has leaves the collection and the event store unchanged
C20_PurgeRemovesExactlyThatIssue ==
  [][/\ (pc[PurgeCli] = "purge_save" /\ pc'[PurgeCli] = "purge_events") =>
          /\ Len(issuesFile') = Len(issuesFile) - 1
          /\ OtherIssues(issuesFile', request[PurgeCli].issue_id)
               = OtherIssues(issuesFile, request[PurgeCli].issue_id)
          /\ \A i \in DOMAIN issuesFile' :
                issuesFile'[i].id # request[PurgeCli].issue_id
          /\ eventFiles' = eventFiles
     /\ pc[PurgeCli] = "purge_events" =>
          /\ eventFiles' =
               {e \in eventFiles : e.issue_id # request[PurgeCli].issue_id}
          /\ issuesFile' = issuesFile
     /\ PurgeWithoutEffect =>
          /\ issuesFile' = issuesFile
          /\ eventFiles' = eventFiles]_vars

\* max(existing ids), 0 for an empty collection
MaxId(issues) ==
  IF issues = <<>> THEN 0
  ELSE CHOOSE x \in {issues[i].id : i \in DOMAIN issues} :
         \A i \in DOMAIN issues : issues[i].id <= x

\* C21: when no issue matches the fingerprint the ingestion path allocates
\* id = max(existing ids) + 1 (1 for an empty collection), creates the issue
\* with status open and the first 80 characters of the message as title,
\* appends it and persists the whole collection; when an issue matches, the
\* collection is not rewritten
C21_NewIssueGetsMaxPlusOne ==
  [][/\ pc[PurgeCli] = "create" =>
          LET new == issuesFile'[Len(issuesFile')]
          IN /\ issuesFile' = Append(issuesFile, new)
             /\ new.id = MaxId(issuesFile) + 1
             /\ new.status = "open"
             /\ new.fingerprint = Fingerprint(CurMessage(PurgeCli))
             /\ new.title = Title(CurMessage(PurgeCli))
     /\ (pc[PurgeCli] = "idle" /\ pc'[PurgeCli] = "event") =>
          /\ local_issue'[PurgeCli] \in
               {issuesFile[i] : i \in DOMAIN issuesFile}
          /\ issuesFile' = issuesFile
     /\ pc[PurgeCli] \in {"event", "respond"} => issuesFile' = issuesFile]_vars

Running == {k \in DOMAIN futures : futures[k] = "running"}

\* C23: within one dispatch call at most 5 provider sends are in flight at
\* any moment, however many subscriptions match, and with more than 5
\* matching subscriptions every one of them is still eventually sent
C23_AtMostFiveInFlightAllSent ==
  /\ [](Cardinality(Running) <= 5)
  /\ [](hpc = "dispatching" =>
          <>(/\ Len(providers) = Len(load_webhooks(configFile))
             /\ \A k \in DOMAIN providers : sendCalls[k] = 1))

\* five sends are running and a sixth matching subscription waits its turn
C23_Witness ==
  /\ Cardinality(Running) = 5
  /\ \E k \in DOMAIN futures : futures[k] = "queued"

\* C24: the issue collection file is only ever replaced atomically by a
\* complete document: under any interleaving of save_issues calls and
\* load_issues readers the file at ISSUES_FILE parses as a complete issue
\* array that one of the writers intended to write
C24_IssuesFileAlwaysComplete ==
  /\ ISSUES_FILE \in DOMAIN links
  /\ ~json_load_raises(inodes[links[ISSUES_FILE]])
  /\ \A content \in observed : ~json_load_raises(content)
  /\ \A s \in StoreProcs : spc[s] # "raised"

\* C25: the server serves each HTTP request on its own execution context: a
\* second request can be accepted and processed while an earlier request is
\* still in progress, for example while it is in webhook dispatch
C25_RequestsServedConcurrently ==
  (pc[ServerProc] # "idle" /\ opsLeft > 0) =>
     ENABLED (\E m \in Messages : handle_event(ServerProc, Body(m)))

C27_EventAttributedToOneBucket ==
  \A e \in eventFiles :
     e.issue_id # 0 =>
        /\ Cardinality({i \in 1..Len(issuesFile) :
                          issuesFile[i].id = e.issue_id}) <= 1
        /\ \A i \in 1..Len(issuesFile) :
              issuesFile[i].id = e.issue_id =>
                 issuesFile[i].fingerprint = Fingerprint(e.message)

\* the ids of the subscriptions in a list
IdsOf(webhooks) == {webhooks[i].id : i \in DOMAIN webhooks}

\* C28: a subscription persisted through one WebhookDispatcher instance is
\* never dropped from the config when another instance, which loaded the
\* registry before that subscription was persisted, saves its own add,
\* remove or toggle of a different subscription
C28_OtherInstanceKeepsSubscription ==
  [][\A c \in CfgCli :
       save_webhooks_write(c) =>
          \A id \in IdsOf(load_webhooks(configFile)) :
             id \notin IdsOf(dispatcher[c].loaded) =>
                id \in IdsOf(load_webhooks(configFile'))]_vars

\* C29: dispatch_webhooks does not raise for an event the endpoint has
\* persisted, whatever the registry holds: once the event file of a batch
\* element is written the handler goes on with the next element instead
\* of ending without a response
C29_DispatchNeverRaises ==
  [][dispatch_event(ServerProc) =>
        /\ pc'[ServerProc] = "batch"
        /\ responses' = responses]_vars

\* C30: a `server stop` that found the PID file of a running server and
\* signalled it returns success and leaves no PID file, however its steps
\* interleave with the server's cleanup handler; it does not report failure
\* for a server it has stopped
C30_StopReportsSuccess ==
  \A s \in Stoppers :
     (/\ stop_sent[s]
      /\ stop_pc[s] = "idle"
      /\ \A t \in Stoppers \ {s} : stop_pc[t] = "idle" /\ stop_ret[t] = "none") =>
        /\ stop_ret[s] = "stopped"
        /\ ~pidFile

====
